---- MODULE Spec2Model ----
(***************************************************************************)
(* Verification model of the driver-snapshot userscript.                   *)
(*                                                                         *)
(*   Spec         the UI layer (modules/ui.js): the busy gate (Mutex),     *)
(*                requestAddress / refreshSnapshot and the suspension      *)
(*                points of the openToggleCopyStop workflow.               *)
(*   SpecResolve  the stop resolver (modules/address-ops.js): itinerary    *)
(*                document cache, address index memo, network capture,     *)
(*                stop scan and the JSON / DOM address paths.              *)
(*   SpecHook     installation of the fetch / XHR hooks and one page       *)
(*                request passing through them.                            *)
(*   SpecScan     the driver-list scan next to the stop scan.              *)
(*   SpecWait     one call of waitFor.                                     *)
(*   SpecToggle   setHideCompleted on the switch of the detail view.       *)
(*   SpecNav      openToggleCopyStop: activation, back navigation and the  *)
(*                scroll offset of the list.                               *)
(*   SpecClean    cleanAddress applied to a text and to its own output.    *)
(*   SpecKey      the key parseRow gives to two rows.                      *)
(*   SpecLru      LRUCache with more keys than it holds.                   *)
(*   SpecStopN    the stop ordinal from the input field to the resolver.   *)
(*   SpecMutex    Mutex.lock / unlock with waiting tasks.                  *)
(*   SpecCapture  page requests passing through the hook between the     *)
(*                passes of the stop resolver.                             *)
(*   SpecRetry    retry(fn, maxAttempts, initialDelay) of modules/core.js.  *)
(***************************************************************************)
EXTENDS Integers, Sequences, FiniteSets, TLC

\* null of UI.pendingKey / UI.openKey (row keys are 1..NumRows)
NoKey == 0

(***************************************************************************)
(* Bounds of the model                                                     *)
(***************************************************************************)
NumTasks == 2
NumRows == 2
MaxTyped == 1

Tasks == 1..NumTasks
Rows == 1..NumRows

\* values typed into the stop-number input
TypedValues == 0..MaxTyped

(***************************************************************************)
(* Program constants (CONFIG)                                              *)
(***************************************************************************)
DEFAULT_STOP_N == 5
MAX_CACHE_SIZE == 3

VARIABLES
  locked,      \* Mutex._locked
  queue,       \* Mutex._queue (tasks whose resolve callback is queued)
  busy,        \* UI.busy
  data,        \* UI.data (keys of the scanned driver rows)
  stopN,       \* UI.stopN
  addrByKey,   \* UI.addrByKey (LRUCache: Map in insertion order)
  pendingKey,  \* UI.pendingKey
  openKey,     \* UI.openKey
  toastMsg,    \* text of the toast element
  pc,          \* position of each handler invocation
  row,         \* requestAddress: row.key of the invocation
  localN,      \* requestAddress: const stopN
  res          \* value the awaited call settled with

uiVars == <<locked, queue, busy, data, stopN, addrByKey, pendingKey, openKey,
            toastMsg, pc, row, localN, res>>

VARIABLES
  byId,        \* window.__ONTH_NET__.byId (itinerary id -> document)
  addrIndex,   \* window.__ONTH_ADDRINDEX__ (itinerary id -> memoized index)
  url,         \* itineraryId / serviceAreaId of location.href
  layout,      \* the itinerary shown by the detail view
  rpc,         \* position of the resolution pass
  want,        \* ordinal of the pass
  itinJson,    \* openToggleCopyStop: const itinJson
  pos,         \* scroll position of the stop scroller
  loops,       \* collectRemainingStopsNth: loops
  seen,        \* collectRemainingStopsNth: seen
  stagnant,    \* collectRemainingStopsNth: stagnant
  lastSeen,    \* collectRemainingStopsNth: lastSeen
  target,      \* copyNthRemainingStopAddress: target
  jsonTried,   \* getJsonAddressForStop was called in this pass
  domCalls,    \* calls of domExpandAndGetAddressForStop in this pass
  result       \* value copyNthRemainingStopAddress settled with

rVars == <<byId, addrIndex, url, layout, rpc, want, itinJson, pos, loops, seen,
           stagnant, lastSeen, target, jsonTried, domCalls, result>>

\* the resolver state other than the two caches
rLocals == <<url, layout, rpc, want, itinJson, pos, loops, seen, stagnant,
             lastSeen, target, jsonTried, domCalls, result>>

VARIABLES
  hooked,      \* window.__ONTH_NET__.hooked
  installs,    \* runs of hookNetworkOnce so far
  fetchWraps,  \* wrappers around the page's window.fetch
  xhrWraps,    \* wrappers around XMLHttpRequest.prototype.open / send
  hreq,        \* the page request in flight
  hpc,         \* position of the page request
  pageGot,     \* what the page's own caller received
  captures,    \* calls of saveIfItinerary that wrote the cache for this response
  swallowed    \* errors caught inside the hook for this response

hVars == <<hooked, installs, fetchWraps, xhrWraps, hreq, hpc, pageGot, captures,
           swallowed>>

VARIABLES
  dPanel,      \* collectAllDrivers: panel was found
  dLayout,     \* the driver list shown by the list view
  dPos,        \* scroll position of the list panel
  tracked,     \* trackedElements (row elements marked as seen)
  dOut,        \* collectAllDrivers: out
  lastCount,   \* collectAllDrivers: lastCount
  dStagnant,   \* collectAllDrivers: stagnant
  dLoops,      \* collectAllDrivers: loops
  dpc,         \* position of the driver scan
  dToast       \* last toast of the driver scan

dVars == <<dPanel, dLayout, dPos, tracked, dOut, lastCount, dStagnant, dLoops,
           dpc, dToast>>

VARIABLES
  wNow,        \* performance.now(), in polling intervals since the call
  wTimeout,    \* waitFor: timeout
  wpc,         \* position of the waitFor call
  wResult,     \* value waitFor returned (NoValue: null)
  wWarns       \* predicate errors caught and logged by this call

wVars == <<wNow, wTimeout, wpc, wResult, wWarns>>

VARIABLES
  toggle,      \* the hide-completed switch of the detail view
  lastWant,    \* argument of the last setHideCompleted call
  prevWant,    \* argument of the call before it
  hideClicks,  \* clicks dispatched by the last call
  prevClicks,  \* clicks dispatched by the call before it
  hideRet      \* finalState returned by the last call

tVars == <<toggle, lastWant, prevWant, hideClicks, prevClicks, hideRet>>

VARIABLES
  view,        \* what the page shows: "list", "detail" or "blank"
  listScroll,  \* scrollTop of the list container
  savedScroll, \* openToggleCopyStop: savedScroll
  npc,         \* position of openToggleCopyStop
  backFor,     \* which call of goBackToList is running
  nAttempt,    \* clickDriverExact: index of the running attempt
  nBackTries,  \* goBackToList: i
  backOk,      \* value the last goBackToList returned
  entered,     \* clickDriver returned a row (detail-view signal seen)
  nFull,       \* res?.full is a non-empty address
  nRet,        \* value openToggleCopyStop returned ("addr": an address)
  nThrew,      \* openToggleCopyStop rejected
  nRan,        \* clickDriverExact: the strategies run, in order
  nWaits,      \* clickDriverExact: how the wait after each strategy ended
  nBackClicks, \* goBackToList: clicks on a back control
  nHist,       \* goBackToList: calls of history.back()
  nEarly,      \* goBackToList returned at its first test for list rows
  backDone     \* goBackToList has returned in this workflow

nVars == <<view, listScroll, savedScroll, npc, backFor, nAttempt, nBackTries,
           backOk, entered, nFull, nRet, nThrew, nRan, nWaits, nBackClicks,
           nHist, nEarly, backDone>>

\* what clickDriverExact and goBackToList record of their run
nTrace == <<nRan, nWaits, nBackClicks, nHist, nEarly, backDone>>

VARIABLES
  cRaw,        \* cleanAddress: raw
  cOnce,       \* cleanAddress(raw)
  cTwice,      \* cleanAddress(cleanAddress(raw))
  cpc          \* how many times the text was cleaned

cVars == <<cRaw, cOnce, cTwice, cpc>>

VARIABLES
  kRowA,       \* a row element handed to parseRow
  kRowB,       \* another row element handed to parseRow
  kKeyA,       \* parseRow(kRowA).key
  kKeyB,       \* parseRow(kRowB).key
  kAgain,      \* parseRow(kRowA).key of a second call
  kpc          \* how many rows were parsed

kVars == <<kRowA, kRowB, kKeyA, kKeyB, kAgain, kpc>>

VARIABLES
  lCache,      \* LRUCache._cache (Map in insertion order)
  lUsed,       \* the cached keys, ordered by their last set or get
  lOp,         \* the last operation on the cache
  lOldest,     \* the least recently used key before the last operation
  lEvicted,    \* the key the last operation removed (NoKey: none)
  lRet         \* what the last get or has returned

lVars == <<lCache, lUsed, lOp, lOldest, lEvicted, lRet>>

VARIABLES
  sStopN,      \* UI.stopN, in tenths
  sLocal,      \* requestAddress: const stopN, in tenths
  sWant,       \* copyNthRemainingStopAddress: want, in tenths
  spc          \* position of the workflow that uses the ordinal

sVars == <<sStopN, sLocal, sWant, spc>>

VARIABLES
  mLocked,     \* Mutex._locked
  mQueue,      \* Mutex._queue (resolve callbacks, by task)
  mpc,         \* position of each task that uses the mutex
  mCalls       \* the tasks blocked in lock(), in the order of their calls

mVars == <<mLocked, mQueue, mpc, mCalls>>

VARIABLES
  yMax,        \* retry: maxAttempts
  yDelay,      \* retry: initialDelay
  yAttempt,    \* retry: attempt
  yLastError,  \* retry: lastError
  ypc,         \* position of the retry call
  yCalls,      \* calls of fn so far
  yInFlight,   \* calls of fn that have not settled
  yWaits,      \* the delays of the timers retry has waited for
  yOut         \* what the promise of retry settled with

yVars == <<yMax, yDelay, yAttempt, yLastError, ypc, yCalls, yInFlight, yWaits, yOut>>

\* the state of the other components, and what each of them leaves alone
xVars == <<hVars, dVars, wVars, tVars, nVars, cVars, kVars, lVars, sVars, mVars, yVars>>
xNotH == <<dVars, wVars, tVars, nVars, cVars, kVars, lVars, sVars, mVars, yVars>>
xNotD == <<hVars, wVars, tVars, nVars, cVars, kVars, lVars, sVars, mVars, yVars>>
xNotW == <<hVars, dVars, tVars, nVars, cVars, kVars, lVars, sVars, mVars, yVars>>
xNotT == <<hVars, dVars, wVars, nVars, cVars, kVars, lVars, sVars, mVars, yVars>>
xNotN == <<hVars, dVars, wVars, tVars, cVars, kVars, lVars, sVars, mVars, yVars>>
xNotC == <<hVars, dVars, wVars, tVars, nVars, kVars, lVars, sVars, mVars, yVars>>
xNotK == <<hVars, dVars, wVars, tVars, nVars, cVars, lVars, sVars, mVars, yVars>>
xNotL == <<hVars, dVars, wVars, tVars, nVars, cVars, kVars, sVars, mVars, yVars>>
xNotS == <<hVars, dVars, wVars, tVars, nVars, cVars, kVars, lVars, mVars, yVars>>
xNotM == <<hVars, dVars, wVars, tVars, nVars, cVars, kVars, lVars, sVars, yVars>>
xNotY == <<hVars, dVars, wVars, tVars, nVars, cVars, kVars, lVars, sVars, mVars>>

vars == <<uiVars, rVars, xVars>>

Max(a, b) == IF a >= b THEN a ELSE b

(***************************************************************************)
(* LRUCache: a Map kept in insertion order, as a sequence of <<key,value>> *)
(***************************************************************************)
LruHas(c, k) == \E i \in 1..Len(c) : c[i][1] = k

LruWithout(c, k) == SelectSeq(c, LAMBDA e : e[1] # k)

LruValue(c, k) == (CHOOSE i \in 1..Len(c) : c[i][1] = k)

\* get(key): a hit is deleted and re-inserted at the end
LruGet(c, k) ==
  IF LruHas(c, k) THEN Append(LruWithout(c, k), c[LruValue(c, k)]) ELSE c

\* set(key, value)
LruSet(c, k, v) ==
  IF LruHas(c, k) THEN Append(LruWithout(c, k), <<k, v>>)
  ELSE IF Len(c) >= MAX_CACHE_SIZE THEN Append(Tail(c), <<k, v>>)
  ELSE Append(c, <<k, v>>)

\* renderTable(): the detail row of the open driver reads addrByKey.get(key)
RenderTable(c, ok, n, d) ==
  IF ok # NoKey /\ ok \in d THEN LruGet(c, <<ok, n>>) ELSE c

\* the address the page shows for the n-th remaining stop of driver r
WorldAddr(r, n) == <<"addr", r, n>>

\* settled value of an awaited call: {ok, address} of openToggleCopyStop
\* (address "" is <<>>), the rows of collectAllDrivers, or a thrown error
NoRes == [threw |-> FALSE, ok |-> FALSE, address |-> <<>>, rows |-> {}]

(***************************************************************************)
(* Mutex                                                                   *)
(***************************************************************************)
\* lock(): runs synchronously up to its first await
MutexLock_NoSet(t) ==
  IF locked
  THEN /\ queue' = Append(queue, t)
       /\ locked' = locked
       /\ pc' = [pc EXCEPT ![t] = "lockQueued"]
  ELSE /\ locked' = locked
       /\ queue' = queue
       /\ pc' = [pc EXCEPT ![t] = "lockAwait"]

MutexLock(t) ==
  IF locked
  THEN /\ queue' = Append(queue, t)
       /\ locked' = locked
       /\ pc' = [pc EXCEPT ![t] = "lockQueued"]
  ELSE /\ locked' = TRUE
       /\ queue' = queue
       /\ pc' = [pc EXCEPT ![t] = "lockAwait"]

\* unlock(): clears the flag and resolves the first queued waiter
MutexUnlock(t) ==
  /\ locked' = FALSE
  /\ IF queue # <<>>
     THEN /\ queue' = Tail(queue)
          /\ pc' = [pc EXCEPT ![t] = "idle", ![Head(queue)] = "lockRetry"]
     ELSE /\ queue' = queue
          /\ pc' = [pc EXCEPT ![t] = "idle"]

(***************************************************************************)
(* Address text.  A text is a sequence of lines, a line a sequence of      *)
(* tokens ("" is <<>>).  "EditIn" and "DriverAid" stand for lines that     *)
(* start with "edit in" / "driver aid", "GeoStudio" for the brand token,   *)
(* "," for a comma and the tokens of ZipTokens for postal codes.           *)
(***************************************************************************)
ZipTokens == {"11111", "22222", "33333"}

hasZip(l) == \E i \in 1..Len(l) : l[i] \in ZipTokens

hasComma(l) == \E i \in 1..Len(l) : l[i] = ","

IsBoilerplate(l) ==
  \/ l[1] = "EditIn"
  \/ l[1] = "DriverAid"
  \/ \E i \in 1..Len(l) : l[i] = "GeoStudio"

\* the match replaced by the whole line
ZipPrefix_WholeLine(l) == l

\* l.match(^(.*?zip)): the prefix ending at the first postal code
ZipPrefix(l) ==
  LET k == CHOOSE i \in 1..Len(l) :
             l[i] \in ZipTokens /\ \A j \in 1..(i - 1) : l[j] \notin ZipTokens
  IN SubSeq(l, 1, k)

\* l.match(^(.*? zip)): the prefix ending at the first postal code that
\* follows a space; without one there is no match and the line is returned
ZipPrefixAfterSpace(l) ==
  LET at == {i \in 2..Len(l) : l[i] \in ZipTokens}
  IN IF at = {} THEN l
     ELSE SubSeq(l, 1, CHOOSE i \in at : \A j \in at : i <= j)

\* cleanAddress without the boilerplate filter
cleanAddress_NoFilter(raw) ==
  LET lines == SelectSeq(raw, LAMBDA l : l # <<>>)
      keep == lines
      both == SelectSeq(keep, LAMBDA l : hasZip(l) /\ hasComma(l))
      zips == SelectSeq(keep, hasZip)
  IN IF Len(keep) >= 2 /\ ~hasZip(keep[1]) /\ hasZip(keep[2])
     THEN keep[1] \o <<",">> \o keep[2]
     ELSE IF both # <<>> THEN ZipPrefix(both[1])
     ELSE IF zips # <<>> THEN ZipPrefixAfterSpace(zips[1])
     ELSE IF keep # <<>> THEN keep[1]
     ELSE IF lines # <<>> THEN lines[1]
     ELSE <<>>

cleanAddress(raw) ==
  LET lines == SelectSeq(raw, LAMBDA l : l # <<>>)
      keep == SelectSeq(lines, LAMBDA l : ~IsBoilerplate(l))
      both == SelectSeq(keep, LAMBDA l : hasZip(l) /\ hasComma(l))
      zips == SelectSeq(keep, hasZip)
  IN IF Len(keep) >= 2 /\ ~hasZip(keep[1]) /\ hasZip(keep[2])
     THEN keep[1] \o <<",">> \o keep[2]
     ELSE IF both # <<>> THEN ZipPrefix(both[1])
     ELSE IF zips # <<>> THEN ZipPrefixAfterSpace(zips[1])
     ELSE IF keep # <<>> THEN keep[1]
     ELSE IF lines # <<>> THEN lines[1]
     ELSE <<>>

\* raw address texts found in documents and in detail panels
T_A == << <<"12Main">>, <<"Town", ",", "ST", "11111">> >>
T_B == << <<"EditIn", "Map">>, <<"9Oak", ",", "City", "22222", "ring">> >>
T_C == << <<"5Elm">> >>
T_D == << <<"7Pine", ",", "Ville", "33333">> >>
\* a blank text
T_E == << <<>> >>

(***************************************************************************)
(* Stop numbers, itinerary documents and the address index                 *)
(***************************************************************************)
MaxStop == 3
MaxWant == 2
NumIds == 1
\* stopNum null (no stop-number field, unparsable header)
NoNum == -1
\* no document (byId miss, fetch failure, body parsing to null)
NoDoc == 0
\* itineraryId null
NoId == 0

StopNums == 0..MaxStop
Ids == 1..NumIds

\* an object of the document tree: its stop-number field, its address field
\* and its object-valued properties in key order
Node(n, a, ks) == [num |-> n, addr |-> a, kids |-> ks]

Docs == <<
  Node(NoNum, <<>>, << Node(1, T_A, <<>>), Node(2, T_B, <<>>), Node(0, T_C, <<>>) >>),
  Node(NoNum, <<>>, << Node(1, T_C, << Node(1, T_A, <<>>) >>), Node(3, T_B, <<>>) >>),
  Node(NoNum, <<>>, << Node(NoNum, T_A, <<>>), Node(2, <<>>, <<>>),
                       Node(0, <<>>, << Node(0, T_E, <<>>) >>), Node(0, T_C, <<>>),
                       Node(0, T_A, <<>>) >>)
>>

DocIds == 1..Len(Docs)

EmptyIdx == [n \in StopNums |-> <<>>]

NoIndex == [has |-> FALSE, idx |-> EmptyIdx]

\* extractAddressFromObj: a non-empty address string is cleaned, else null
extractAddressFromObj(o) ==
  IF o.addr # <<>> THEN cleanAddress(o.addr) ELSE <<>>

\* Object.create(null): idx holds the entries (<<>> where there is none),
\* keys the stop numbers that were assigned
EmptyAcc == [idx |-> EmptyIdx, keys |-> {}]

RECURSIVE walk(_, _)
RECURSIVE walkKids(_, _, _)

\* the walk with the later object winning
walk_LastWins(node, acc) ==
  LET addr == extractAddressFromObj(node)
      acc1 == IF node.num # NoNum /\ addr # <<>>
              THEN [idx |-> [acc.idx EXCEPT ![node.num] = addr],
                    keys |-> acc.keys \cup {node.num}]
              ELSE acc
  IN walkKids(node.kids, 1, acc1)

\* buildStopAddressIndex.walk: depth-first, the first address found for a
\* stop number is kept
walk(node, acc) ==
  LET addr == extractAddressFromObj(node)
      acc1 == IF node.num # NoNum /\ addr # <<>> /\ acc.idx[node.num] = <<>>
              THEN [idx |-> [acc.idx EXCEPT ![node.num] = addr],
                    keys |-> acc.keys \cup {node.num}]
              ELSE acc
  IN walkKids(node.kids, 1, acc1)

walkKids(ks, i, acc) ==
  IF i > Len(ks) THEN acc ELSE walkKids(ks, i + 1, walk(ks[i], acc))

buildStopAddressIndex(d) == walk(Docs[d], EmptyAcc).idx

\* Object.keys(idx) of the index built from document d
IndexKeys(d) == walk(Docs[d], EmptyAcc).keys

(***************************************************************************)
(* The detail view: pages of rendered stop headers, and the address text   *)
(* of each stop's detail panel                                             *)
(***************************************************************************)
Hdr(n, d) == [stopNum |-> n, done |-> d]

Layouts == <<
  << {Hdr(1, FALSE), Hdr(2, FALSE)}, {Hdr(3, FALSE)} >>,
  << {Hdr(3, FALSE), Hdr(2, FALSE)}, {Hdr(1, FALSE)} >>,
  << {Hdr(0, FALSE), Hdr(1, TRUE)} >>,
  << {Hdr(NoNum, FALSE), Hdr(2, FALSE)} >>,
  << {} >>,
  << {} >>,
  << {Hdr(2, FALSE)} >>,
  << {Hdr(2, FALSE)}, {Hdr(1, TRUE)} >>,
  << {Hdr(3, FALSE)}, {Hdr(1, FALSE)} >>
>>

LayoutIds == 1..Len(Layouts)

\* detail views in which pickStopScroller() finds no scroll container
\* (no scrollable ancestor, no scrollPanel, document.scrollingElement null)
NoScroller == {6, 7}

\* detail views whose scroll container never reports its end (scrollTop +
\* clientHeight stays below scrollHeight - 6, as in a virtualised list that
\* keeps growing)
EndlessStops == {8}

\* innerText of the address node of the stop's panel (<<>>: none found)
DomText == [n \in StopNums |->
              CASE n = 0 -> T_D
                [] n = 1 -> T_D
                [] n = 3 -> T_C
                [] OTHER -> <<>>]

NoTarget == Hdr(NoNum, FALSE)

NoResult == [stopNum |-> NoNum, full |-> <<>>, source |-> "none"]

NoUrl == [itineraryId |-> NoId, serviceAreaId |-> FALSE]

(***************************************************************************)
(* Program constants of the scan (scaled)                                  *)
(***************************************************************************)
MAX_SCROLL_LOOPS == 4
STAGNANT_THRESHOLD == 2

InitResolve ==
  /\ byId = [i \in Ids |-> NoDoc]
  /\ addrIndex = [i \in Ids |-> NoIndex]
  /\ url = NoUrl
  /\ layout = 1
  /\ rpc = "idle"
  /\ want = 1
  /\ itinJson = NoDoc
  /\ pos = 1
  /\ loops = 0
  /\ seen = [n \in StopNums |-> "no"]
  /\ stagnant = 0
  /\ lastSeen = 0
  /\ target = NoTarget
  /\ jsonTried = FALSE
  /\ domCalls = 0
  /\ result = NoResult

(***************************************************************************)
(* The network hook                                                        *)
(***************************************************************************)
MaxInstalls == 3

\* what the original primitive produces: a response (two of them, to tell
\* them apart) or a rejection / error event
Outcomes == {"res200", "res500", "neterr"}

\* the response body: a JSON object, JSON that parses to a falsy value, text
\* that is not JSON, or a body that cannot be read (clone() or responseText
\* throws)
Bodies == {"doc", "falsy", "notjson", "unreadable"}

NoReq == [kind |-> "none", match |-> FALSE, id |-> NoId, doc |-> NoDoc,
          body |-> "falsy", net |-> "neterr", layers |-> 0]

Requests ==
  [kind : {"fetch", "xhr"}, match : BOOLEAN, id : Ids, doc : DocIds,
   body : Bodies, net : Outcomes]

InitHook ==
  /\ hooked = FALSE
  /\ installs = 0
  /\ fetchWraps = 0
  /\ xhrWraps = 0
  /\ hreq = NoReq
  /\ hpc = "idle"
  /\ pageGot = "none"
  /\ captures = 0
  /\ swallowed = 0

(***************************************************************************)
(* The list view: pages of rendered row elements.  A row element is a      *)
(* number; the elements of ThrowEls throw when their fields are read.      *)
(***************************************************************************)
RowLayouts == <<
  << {1, 2}, {2, 3} >>,
  << {1, 2} >>,
  << {} >>,
  << {1, 4} >>,
  << {1, 2}, {3} >>
>>

RowLayoutIds == 1..Len(RowLayouts)

RowEls ==
  UNION {UNION {RowLayouts[l][i] : i \in 1..Len(RowLayouts[l])} : l \in RowLayoutIds}

ThrowEls == {4}

\* lists whose scroll container never reports its end
EndlessRows == {5}

InitDrivers ==
  /\ dPanel = TRUE
  /\ dLayout = 1
  /\ dPos = 1
  /\ tracked = {}
  /\ dOut = <<>>
  /\ lastCount = 0
  /\ dStagnant = 0
  /\ dLoops = 0
  /\ dpc = "idle"
  /\ dToast = "none"

(***************************************************************************)
(* waitFor: time is counted in polling intervals; t0 is 0                  *)
(***************************************************************************)
MaxTimeout == 4
MaxLag == 1
MaxValue == 2

\* null
NoValue == 0

\* what one call of the predicate does: returns a falsy value (0), returns a
\* truthy value, or throws (Throws)
Throws == -1

PredOutcomes == {Throws} \cup (0..MaxValue)

InitWait ==
  /\ wNow = 0
  /\ wTimeout = 0
  /\ wpc = "idle"
  /\ wResult = NoValue
  /\ wWarns = 0

(***************************************************************************)
(* The hide-completed switch: found says whether findHideToggle() finds    *)
(* it; aria is its aria-checked attribute ("none": absent); hasChecked     *)
(* says whether it has a checked property (an input), checked its value;   *)
(* ds is its data-state attribute and cls whether it has class "checked"   *)
(***************************************************************************)
Toggles ==
  [found : BOOLEAN, aria : {"none", "true", "false"}, hasChecked : BOOLEAN,
   checked : BOOLEAN, ds : {"", "on", "true", "off"}, cls : BOOLEAN]

NoToggle == [found |-> FALSE, aria |-> "none", hasChecked |-> FALSE,
             checked |-> FALSE, ds |-> "", cls |-> FALSE]

\* isOn(el)
isOn(el) ==
  IF ~el.found THEN FALSE
  ELSE IF el.aria # "none" THEN el.aria = "true"
  ELSE IF el.hasChecked THEN el.checked
  ELSE el.cls \/ el.ds = "on" \/ el.ds = "true"

\* the page's reaction to a click on the switch: every representation of
\* the state that the element carries flips
Flip(el) ==
  [el EXCEPT !.aria = IF @ = "none" THEN @ ELSE IF @ = "true" THEN "false" ELSE "true",
             !.checked = IF el.hasChecked THEN ~@ ELSE @,
             !.ds = IF el.aria # "none" \/ el.hasChecked THEN @
                    ELSE IF isOn(el) THEN "off" ELSE "on",
             !.cls = IF el.aria # "none" \/ el.hasChecked THEN @ ELSE FALSE]

InitToggle ==
  /\ toggle = NoToggle
  /\ lastWant = "none"
  /\ prevWant = "none"
  /\ hideClicks = 0
  /\ prevClicks = 0
  /\ hideRet = FALSE

(***************************************************************************)
(* Navigation between the list view and the detail view                   *)
(***************************************************************************)
MaxScroll == 2
RETRY_ATTEMPTS == 3
\* clickDriverExact: attempts.length
NumAttempts == 3

Scrolls == 0..MaxScroll

NoRet == [ok |-> FALSE, address |-> ""]

InitNav ==
  /\ view = "list"
  /\ listScroll = 0
  /\ savedScroll = 0
  /\ npc = "idle"
  /\ backFor = "none"
  /\ nAttempt = 0
  /\ nBackTries = 0
  /\ backOk = FALSE
  /\ entered = FALSE
  /\ nFull = FALSE
  /\ nRet = NoRet
  /\ nThrew = FALSE
  /\ nRan = <<>>
  /\ nWaits = <<>>
  /\ nBackClicks = 0
  /\ nHist = 0
  /\ nEarly = FALSE
  /\ backDone = FALSE

(***************************************************************************)
(* Address cleaning applied to arbitrary texts                             *)
(***************************************************************************)
MaxLines == 3
MaxTokens == 4

\* a street or place word, the comma, a postal code and the two kinds of
\* boilerplate markers
AddrTokens == {"12Main", ",", "11111", "EditIn", "GeoStudio"}

RECURSIVE SeqsUpTo(_, _)
SeqsUpTo(S, n) ==
  IF n = 0 THEN {<<>>}
  ELSE LET shorter == SeqsUpTo(S, n - 1)
       IN shorter \cup {Append(q, x) : q \in shorter, x \in S}

\* the lines of a text (an empty line is <<>>)
AddrLines == SeqsUpTo(AddrTokens, MaxTokens)

\* the size of a line: its tokens, an empty line counting as one
LineSize(l) == IF l = <<>> THEN 1 ELSE Len(l)

\* the texts of at most n lines and of size at most k
RECURSIVE TextsOfSize(_, _)
TextsOfSize(n, k) ==
  IF n = 0 \/ k = 0 THEN {<<>>}
  ELSE {<<>>} \cup
       UNION {{<<l>> \o t : t \in TextsOfSize(n - 1, k - LineSize(l))} :
              l \in {x \in AddrLines : LineSize(x) <= k}}

\* String(raw || ""): the texts cleanAddress is applied to, at most MaxLines
\* lines holding at most MaxTokens tokens together
RawTexts == TextsOfSize(MaxLines, MaxTokens)

InitClean ==
  /\ cRaw = <<>>
  /\ cOnce = <<>>
  /\ cTwice = <<>>
  /\ cpc = "idle"

(***************************************************************************)
(* Row identity.  A phone text is a sequence of tokens: "55512" is a group *)
(* of five digits, "-" and " " are separators.  A row has its first text   *)
(* line (a name and whether it is written in capitals), the number of its  *)
(* tel: link and the text line that holds a phone number ("" is <<>>).     *)
(***************************************************************************)
MaxPhoneLen == 3

PhoneTokens == {"55512", "-", " "}

IsDigits(t) == t = "55512"

PhoneTexts == SeqsUpTo(PhoneTokens, MaxPhoneLen)

RowNames == [base : {"ann", "bob"}, caps : BOOLEAN]

KeyRows == [name : RowNames, tel : {<<>>, <<"55512", "-", "55512">>},
            line : PhoneTexts]

NoRow == [name |-> [base |-> "ann", caps |-> FALSE], tel |-> <<>>, line |-> <<>>]

\* norm(s): lower case (the texts of the model have no outer blanks)
norm(n) == [n EXCEPT !.caps = FALSE]

\* digits(s): the digits of a phone text
digits(s) == SelectSeq(s, IsDigits)

RECURSIVE Squeeze(_)
\* replace(/\s{2,}/g, " ")
Squeeze(s) ==
  IF Len(s) <= 1 THEN s
  ELSE IF s[1] = " " /\ s[2] = " " THEN Squeeze(Tail(s))
  ELSE <<s[1]>> \o Squeeze(Tail(s))

RECURSIVE TrimText(_)
\* trim()
TrimText(s) ==
  IF s = <<>> THEN s
  ELSE IF s[1] = " " THEN TrimText(Tail(s))
  ELSE IF s[Len(s)] = " " THEN TrimText(SubSeq(s, 1, Len(s) - 1))
  ELSE s

\* tidyPhone(s): what precedes the first digit is dropped, runs of blanks
\* become one blank, the text is trimmed; separators stay
tidyPhone(s) ==
  LET at == {i \in 1..Len(s) : IsDigits(s[i])}
      cut == IF at = {} THEN s
             ELSE SubSeq(s, CHOOSE i \in at : \A j \in at : i <= j, Len(s))
  IN TrimText(Squeeze(cut))

\* L.match(RX.phone)[1]: from a digit to the last digit, at least nine
\* characters long (two groups of digits); <<>> when there is no match
PhoneMatch(l) ==
  LET at == {i \in 1..Len(l) : IsDigits(l[i])}
  IN IF Cardinality(at) < 2 THEN <<>>
     ELSE SubSeq(l, CHOOSE i \in at : \A j \in at : i <= j,
                    CHOOSE i \in at : \A j \in at : i >= j)

\* extractPhone(row, lines): the tel: link first, then the text
extractPhone(r) ==
  IF r.tel # <<>> THEN tidyPhone(r.tel)
  ELSE IF PhoneMatch(r.line) # <<>> THEN tidyPhone(PhoneMatch(r.line))
  ELSE <<>>

\* parseRow(row).key: `${norm(name)}|${norm(phone)}`
parseRow_key(r) == <<norm(r.name), extractPhone(r)>>

InitKey ==
  /\ kRowA = NoRow
  /\ kRowB = NoRow
  /\ kKeyA = <<>>
  /\ kKeyB = <<>>
  /\ kAgain = <<>>
  /\ kpc = "idle"

(***************************************************************************)
(* The address cache on its own: more keys than the cache holds            *)
(***************************************************************************)
LruKeys == 1..(MAX_CACHE_SIZE + 2)

LruValues == {"a", "b"}

\* undefined, returned by get on a miss
NoLruValue == "undefined"

InitLru ==
  /\ lCache = <<>>
  /\ lUsed = <<>>
  /\ lOp = "new"
  /\ lOldest = NoKey
  /\ lEvicted = NoKey
  /\ lRet = NoLruValue

(***************************************************************************)
(* The stop ordinal as a number.  Numbers are counted in tenths: 25 is     *)
(* 2.5, 10 is 1.  Number(value) of the number input is 0 for "" (what the  *)
(* input reports for text that is no number).                              *)
(***************************************************************************)
\* the documented upper limit of the stop number
STOP_MAX == 999

\* e.target.value as a number: -1, "" or 0, 0.5, 1, 2.5, 5, 999, 999.5, 1000
TypedNumbers == {-10, 0, 5, 10, 25, 50, 10 * STOP_MAX, 10 * STOP_MAX + 5,
                 10 * STOP_MAX + 10}

\* Math.max(1, Number(v) || CONFIG.DEFAULT_STOP_N)
validStopN(v) == Max(10, IF v = 0 THEN 10 * DEFAULT_STOP_N ELSE v)

InitStopN ==
  /\ sStopN = 10 * DEFAULT_STOP_N
  /\ sLocal = 10 * DEFAULT_STOP_N
  /\ sWant = 10 * DEFAULT_STOP_N
  /\ spc = "idle"

(***************************************************************************)
(* The Mutex class used by several tasks that wait in lock()               *)
(***************************************************************************)
NumLockers == 4

Lockers == 1..NumLockers

InitMutex ==
  /\ mLocked = FALSE
  /\ mQueue = <<>>
  /\ mpc = [t \in Lockers |-> "out"]
  /\ mCalls = <<>>

(***************************************************************************)
(* retry: the k-th call of fn returns Value(k) or throws Error(k)           *)
(***************************************************************************)
MaxAttempts == 4
MaxDelay == 2

Value(k) == [kind |-> "value", of |-> k]
Error(k) == [kind |-> "error", of |-> k]
\* let lastError; (undefined)
Undefined == [kind |-> "undefined", of |-> 0]

InitRetry ==
  /\ yMax = 0
  /\ yDelay = 0
  /\ yAttempt = 0
  /\ yLastError = Undefined
  /\ ypc = "idle"
  /\ yCalls = 0
  /\ yInFlight = 0
  /\ yWaits = <<>>
  /\ yOut = Undefined

\* initial state of the components other than the UI and the resolver
InitX == InitHook /\ InitDrivers /\ InitWait /\ InitToggle /\ InitNav /\ InitClean /\ InitKey /\ InitLru /\ InitStopN /\ InitMutex /\ InitRetry

(***************************************************************************)
(* UI handlers                                                             *)
(***************************************************************************)
InitUI ==
  /\ locked = FALSE
  /\ queue = <<>>
  /\ busy = FALSE
  /\ data = {}
  /\ stopN = DEFAULT_STOP_N
  /\ addrByKey = <<>>
  /\ pendingKey = NoKey
  /\ openKey = NoKey
  /\ toastMsg = "none"
  /\ pc = [t \in Tasks |-> "idle"]
  /\ row = [t \in Tasks |-> NoKey]
  /\ localN = [t \in Tasks |-> 0]
  /\ res = [t \in Tasks |-> NoRes]

Init == InitUI /\ InitResolve /\ InitX

\* stopInput "input" listener
StopInput(v) ==
  /\ UNCHANGED <<rVars, xVars>>
  /\ stopN' = Max(1, IF v = 0 THEN DEFAULT_STOP_N ELSE v)
  /\ addrByKey' = RenderTable(addrByKey, openKey, stopN', data)
  /\ toastMsg' = "stopset"
  /\ UNCHANGED <<locked, queue, busy, data, pendingKey, openKey, pc, row, localN, res>>

\* requestAddress with the isLocked test left out
RequestAddress_NoBusyCheck(t, r, k, c) ==
  /\ UNCHANGED <<rVars, xVars>>
  /\ pc[t] = "idle"
  /\ LET n == Max(1, IF stopN = 0 THEN DEFAULT_STOP_N ELSE stopN) IN
     IF LruHas(c, <<r, n>>)
     THEN /\ openKey' = r
          /\ addrByKey' = RenderTable(c, r, stopN, data)
          /\ toastMsg' = "cached"
          /\ UNCHANGED <<locked, queue, busy, data, stopN, pendingKey,
                         pc, row, localN, res>>
     ELSE /\ MutexLock(t)
          /\ row' = [row EXCEPT ![t] = r]
          /\ localN' = [localN EXCEPT ![t] = n]
          /\ openKey' = k
          /\ addrByKey' = c
          /\ UNCHANGED <<busy, data, stopN, pendingKey, toastMsg, res>>

\* requestAddress(row) up to its first await; k and c are UI.openKey and
\* UI.addrByKey as the calling listener left them
RequestAddress(t, r, k, c) ==
  /\ UNCHANGED <<rVars, xVars>>
  /\ pc[t] = "idle"
  /\ IF locked
     THEN /\ toastMsg' = "busy"
          /\ openKey' = k
          /\ addrByKey' = c
          /\ UNCHANGED <<locked, queue, busy, data, stopN, pendingKey,
                         pc, row, localN, res>>
     ELSE LET n == Max(1, IF stopN = 0 THEN DEFAULT_STOP_N ELSE stopN) IN
          IF LruHas(c, <<r, n>>)
          THEN /\ openKey' = r
               /\ addrByKey' = RenderTable(c, r, stopN, data)
               /\ toastMsg' = "cached"
               /\ UNCHANGED <<locked, queue, busy, data, stopN, pendingKey,
                              pc, row, localN, res>>
          ELSE /\ MutexLock(t)
               /\ row' = [row EXCEPT ![t] = r]
               /\ localN' = [localN EXCEPT ![t] = n]
               /\ openKey' = k
               /\ addrByKey' = c
               /\ UNCHANGED <<busy, data, stopN, pendingKey, toastMsg, res>>

\* drawer click on a table row: toggles the open row, renders, and requests
\* the address when the row was not open
RowClick(t, r) ==
  /\ UNCHANGED <<rVars, xVars>>
  /\ r \in data
  /\ IF openKey = r
     THEN /\ pc[t] = "idle"
          /\ openKey' = NoKey
          /\ UNCHANGED <<locked, queue, busy, data, stopN, addrByKey, pendingKey,
                         toastMsg, pc, row, localN, res>>
     ELSE RequestAddress(t, r, r, RenderTable(addrByKey, r, stopN, data))

\* drawer click on the "Refresh address" button of the open row
RefreshKeyClick(t, r) ==
  /\ UNCHANGED <<rVars, xVars>>
  /\ r \in data
  /\ openKey = r
  /\ RequestAddress(t, r, openKey, addrByKey)

\* requestAddress resumes after await globalMutex.lock() and calls
\* openToggleCopyStop, which runs up to await clickDriver(...)
RequestBegin(t) ==
  /\ UNCHANGED <<rVars, xVars>>
  /\ pc[t] = "lockAwait"
  /\ row[t] # NoKey
  /\ busy' = TRUE
  /\ pendingKey' = row[t]
  /\ openKey' = row[t]
  /\ addrByKey' = RenderTable(addrByKey, row[t], stopN, data)
  /\ toastMsg' = "copying"
  /\ pc' = [pc EXCEPT ![t] = "otcs_click"]
  /\ UNCHANGED <<locked, queue, data, stopN, row, localN, res>>

\* clickDriver settles: the detail view opened, or every activation failed
\* and openToggleCopyStop returns {ok:false, address:""}
ClickSettle(t) ==
  /\ UNCHANGED <<rVars, xVars>>
  /\ pc[t] = "otcs_click"
  /\ \E ok \in BOOLEAN :
       IF ok
       THEN /\ pc' = [pc EXCEPT ![t] = "otcs_prepare"]
            /\ res' = res
       ELSE /\ pc' = [pc EXCEPT ![t] = "reqTail"]
            /\ res' = [res EXCEPT ![t] = [NoRes EXCEPT !.ok = FALSE]]
  /\ UNCHANGED <<locked, queue, busy, data, stopN, addrByKey, pendingKey, openKey,
                 toastMsg, row, localN>>

\* waitFor(stop headers), scrollToHideArea, setHideCompleted and the sleeps
\* expire; getItineraryJSON is called and either answers from the cache
\* (or finds no URL parameters) or issues the fetch
PrepareDone(t) ==
  /\ UNCHANGED <<rVars, xVars>>
  /\ pc[t] = "otcs_prepare"
  /\ \E miss \in BOOLEAN :
       pc' = [pc EXCEPT ![t] = IF miss THEN "otcs_fetch" ELSE "otcs_scan"]
  /\ UNCHANGED <<locked, queue, busy, data, stopN, addrByKey, pendingKey, openKey,
                 toastMsg, row, localN, res>>

\* the network settles the fetch of getItineraryJSON (response or failure)
FetchSettle(t) ==
  /\ UNCHANGED <<rVars, xVars>>
  /\ pc[t] = "otcs_fetch"
  /\ pc' = [pc EXCEPT ![t] = "otcs_scan"]
  /\ UNCHANGED <<locked, queue, busy, data, stopN, addrByKey, pendingKey, openKey,
                 toastMsg, row, localN, res>>

\* the resolution reading UI.stopN when it runs
ResolveSettle_CurrentN(t) ==
  /\ UNCHANGED <<rVars, xVars>>
  /\ pc[t] = "otcs_scan"
  /\ \E out \in {"address", "null", "throw"} :
       CASE out = "address" ->
              /\ pc' = [pc EXCEPT ![t] = "otcs_back"]
              /\ res' = [res EXCEPT ![t] =
                    [NoRes EXCEPT !.ok = TRUE,
                                  !.address = WorldAddr(row[t], stopN)]]
         [] out = "null" ->
              /\ pc' = [pc EXCEPT ![t] = "otcs_back"]
              /\ res' = [res EXCEPT ![t] = [NoRes EXCEPT !.ok = FALSE]]
         [] out = "throw" ->
              /\ pc' = [pc EXCEPT ![t] = "reqTail"]
              /\ res' = [res EXCEPT ![t] = [NoRes EXCEPT !.threw = TRUE]]
  /\ UNCHANGED <<locked, queue, busy, data, stopN, addrByKey, pendingKey, openKey,
                 toastMsg, row, localN>>

\* copyNthRemainingStopAddress settles: an address, null, or an exception
\* (which leaves openToggleCopyStop at once)
ResolveSettle(t) ==
  /\ UNCHANGED <<rVars, xVars>>
  /\ pc[t] = "otcs_scan"
  /\ \E out \in {"address", "null", "throw"} :
       CASE out = "address" ->
              /\ pc' = [pc EXCEPT ![t] = "otcs_back"]
              /\ res' = [res EXCEPT ![t] =
                    [NoRes EXCEPT !.ok = TRUE,
                                  !.address = WorldAddr(row[t], localN[t])]]
         [] out = "null" ->
              /\ pc' = [pc EXCEPT ![t] = "otcs_back"]
              /\ res' = [res EXCEPT ![t] = [NoRes EXCEPT !.ok = FALSE]]
         [] out = "throw" ->
              /\ pc' = [pc EXCEPT ![t] = "reqTail"]
              /\ res' = [res EXCEPT ![t] = [NoRes EXCEPT !.threw = TRUE]]
  /\ UNCHANGED <<locked, queue, busy, data, stopN, addrByKey, pendingKey, openKey,
                 toastMsg, row, localN>>

\* goBackToList and the scroll restore finish; openToggleCopyStop returns
BackSettle(t) ==
  /\ UNCHANGED <<rVars, xVars>>
  /\ pc[t] = "otcs_back"
  /\ pc' = [pc EXCEPT ![t] = "reqTail"]
  /\ UNCHANGED <<locked, queue, busy, data, stopN, addrByKey, pendingKey, openKey,
                 toastMsg, row, localN, res>>

\* requestAddress after await openToggleCopyStop: try tail or catch, then
\* the finally block
RequestFinish_NoFinally(t) ==
  /\ UNCHANGED <<rVars, xVars>>
  /\ pc[t] = "reqTail"
  /\ LET good == ~res[t].threw /\ res[t].ok /\ res[t].address # <<>>
         c1 == IF good
               THEN LruSet(addrByKey, <<row[t], localN[t]>>, res[t].address)
               ELSE addrByKey
     IN /\ addrByKey' = RenderTable(c1, openKey, stopN, data)
        /\ toastMsg' = IF good THEN "copied" ELSE "failed"
  /\ pendingKey' = NoKey
  /\ IF res[t].threw
     THEN /\ UNCHANGED <<busy, locked, queue>>
          /\ pc' = [pc EXCEPT ![t] = "idle"]
     ELSE /\ busy' = FALSE
          /\ MutexUnlock(t)
  /\ row' = [row EXCEPT ![t] = NoKey]
  /\ localN' = [localN EXCEPT ![t] = 0]
  /\ res' = [res EXCEPT ![t] = NoRes]
  /\ UNCHANGED <<data, stopN, openKey>>

RequestFinish(t) ==
  /\ UNCHANGED <<rVars, xVars>>
  /\ pc[t] = "reqTail"
  /\ LET good == ~res[t].threw /\ res[t].ok /\ res[t].address # <<>>
         c1 == IF good
               THEN LruSet(addrByKey, <<row[t], localN[t]>>, res[t].address)
               ELSE addrByKey
     IN /\ addrByKey' = RenderTable(c1, openKey, stopN, data)
        /\ toastMsg' = IF good THEN "copied" ELSE "failed"
  /\ pendingKey' = NoKey
  /\ busy' = FALSE
  /\ MutexUnlock(t)
  /\ row' = [row EXCEPT ![t] = NoKey]
  /\ localN' = [localN EXCEPT ![t] = 0]
  /\ res' = [res EXCEPT ![t] = NoRes]
  /\ UNCHANGED <<data, stopN, openKey>>

\* refreshSnapshot() up to its first await
RefreshSnapshot(t) ==
  /\ UNCHANGED <<rVars, xVars>>
  /\ pc[t] = "idle"
  /\ IF locked
     THEN /\ toastMsg' = "busy"
          /\ UNCHANGED <<locked, queue, pc>>
     ELSE /\ MutexLock(t)
          /\ toastMsg' = toastMsg
  /\ UNCHANGED <<busy, data, stopN, addrByKey, pendingKey, openKey, row, localN, res>>

\* refreshSnapshot resumes after await globalMutex.lock() and calls
\* collectAllDrivers
RefreshBegin(t) ==
  /\ UNCHANGED <<rVars, xVars>>
  /\ pc[t] = "lockAwait"
  /\ row[t] = NoKey
  /\ busy' = TRUE
  /\ toastMsg' = "loading"
  /\ pc' = [pc EXCEPT ![t] = "rs_collect"]
  /\ UNCHANGED <<locked, queue, data, stopN, addrByKey, pendingKey, openKey,
                 row, localN, res>>

\* collectAllDrivers settles with the scanned rows or an exception
CollectSettle(t) ==
  /\ UNCHANGED <<rVars, xVars>>
  /\ pc[t] = "rs_collect"
  /\ \/ \E d \in SUBSET Rows :
          res' = [res EXCEPT ![t] = [NoRes EXCEPT !.rows = d]]
     \/ res' = [res EXCEPT ![t] = [NoRes EXCEPT !.threw = TRUE]]
  /\ pc' = [pc EXCEPT ![t] = "rsTail"]
  /\ UNCHANGED <<locked, queue, busy, data, stopN, addrByKey, pendingKey, openKey,
                 toastMsg, row, localN>>

\* refreshSnapshot after await collectAllDrivers: try tail or catch, then
\* the finally block
RefreshFinish(t) ==
  /\ UNCHANGED <<rVars, xVars>>
  /\ pc[t] = "rsTail"
  /\ IF res[t].threw
     THEN /\ toastMsg' = "failed"
          /\ UNCHANGED <<data, openKey, addrByKey>>
     ELSE /\ data' = res[t].rows
          /\ openKey' = IF openKey # NoKey /\ openKey \notin res[t].rows
                        THEN NoKey ELSE openKey
          /\ addrByKey' = RenderTable(addrByKey, openKey', stopN, data')
          /\ toastMsg' = "loaded"
  /\ busy' = FALSE
  /\ MutexUnlock(t)
  /\ res' = [res EXCEPT ![t] = NoRes]
  /\ UNCHANGED <<stopN, pendingKey, row, localN>>

Next ==
  \/ \E v \in TypedValues : StopInput(v)
  \/ \E t \in Tasks, r \in Rows : RowClick(t, r)
  \/ \E t \in Tasks, r \in Rows : RefreshKeyClick(t, r)
  \/ \E t \in Tasks : RequestBegin(t)
  \/ \E t \in Tasks : ClickSettle(t)
  \/ \E t \in Tasks : PrepareDone(t)
  \/ \E t \in Tasks : FetchSettle(t)
  \/ \E t \in Tasks : ResolveSettle(t)
  \/ \E t \in Tasks : BackSettle(t)
  \/ \E t \in Tasks : RequestFinish(t)
  \/ \E t \in Tasks : RefreshSnapshot(t)
  \/ \E t \in Tasks : RefreshBegin(t)
  \/ \E t \in Tasks : CollectSettle(t)
  \/ \E t \in Tasks : RefreshFinish(t)

Spec == Init /\ [][Next]_vars

\* the network gives no guarantee that a fetch settles; every other step of
\* a workflow is driven by a timer or a microtask
FairSpec ==
  /\ Spec
  /\ \A t \in Tasks :
       /\ WF_vars(RequestBegin(t))
       /\ WF_vars(ClickSettle(t))
       /\ WF_vars(PrepareDone(t))
       /\ WF_vars(ResolveSettle(t))
       /\ WF_vars(BackSettle(t))
       /\ WF_vars(RequestFinish(t))
       /\ WF_vars(RefreshBegin(t))
       /\ WF_vars(CollectSettle(t))
       /\ WF_vars(RefreshFinish(t))

(***************************************************************************)
(* Properties of the busy gate                                             *)
(***************************************************************************)
\* positions between gate acquisition and gate release
InGate == {"lockAwait", "otcs_click", "otcs_prepare", "otcs_fetch", "otcs_scan",
           "otcs_back", "reqTail", "rs_collect", "rsTail"}

\* positions inside openToggleCopyStop or collectAllDrivers
InBody == {"otcs_click", "otcs_prepare", "otcs_fetch", "otcs_scan", "otcs_back",
           "rs_collect"}

CacheEntries(c) == {c[i] : i \in 1..Len(c)}

\* C1: at most one invocation is between gate acquisition and gate release,
\* so at most one workflow body runs at any time
C1_MutualExclusion ==
  Cardinality({t \in Tasks : pc[t] \in InGate}) <= 1

\* C1 witness: a workflow body is running and a second call was turned away
C1_Witness ==
  /\ \E t \in Tasks : pc[t] = "otcs_scan"
  /\ toastMsg = "busy"

\* C2: a requestAddress call made while the gate is held toasts "busy" and
\* returns in the same step: no position changes (openToggleCopyStop is not
\* started), the mutex queue, UI.pendingKey and the cache are unchanged, and
\* UI.openKey stays as the calling listener left it
C2_BusyRejected ==
  [][\A t \in Tasks, r \in Rows :
       /\ (locked /\ RefreshKeyClick(t, r)) =>
            /\ toastMsg' = "busy"
            /\ pc' = pc
            /\ queue' = queue
            /\ locked' = locked
            /\ pendingKey' = pendingKey
            /\ openKey' = openKey
            /\ addrByKey' = addrByKey
       /\ (locked /\ openKey # r /\ RowClick(t, r)) =>
            /\ toastMsg' = "busy"
            /\ pc' = pc
            /\ queue' = queue
            /\ locked' = locked
            /\ pendingKey' = pendingKey
            /\ openKey' = r
            /\ CacheEntries(addrByKey') = CacheEntries(addrByKey)
  ]_vars

\* C2 witness: while the workflow of one driver is pending, a request for
\* another driver has been turned away
C2_Witness ==
  /\ locked
  /\ toastMsg = "busy"
  /\ pendingKey # NoKey
  /\ openKey # NoKey
  /\ openKey # pendingKey
  /\ \E t \in Tasks : pc[t] \in InBody

\* C3: once every invocation has returned the gate is free and UI.busy is
\* false, whatever the workflows returned or threw
C3_GateReleased ==
  (\A t \in Tasks : pc[t] = "idle") => (~locked /\ ~busy /\ queue = <<>>)

\* C3 witness: a request workflow has ended in failure and the gate is free
C3_Witness ==
  /\ \A t \in Tasks : pc[t] = "idle"
  /\ toastMsg = "failed"
  /\ ~locked
  /\ ~busy

\* C4: every invocation that acquired the gate eventually releases it
C4_EveryWorkflowReleases ==
  \A t \in Tasks : (pc[t] = "lockAwait") ~> (pc[t] = "idle")

(***************************************************************************)
(* The stop resolver (one pass runs at a time: the gate serializes them)   *)
(***************************************************************************)
RECURSIVE SortAsc(_)
\* [...].sort((a, b) => a.stopNum - b.stopNum)
SortAsc(S) ==
  IF S = {} THEN <<>>
  ELSE LET m == CHOOSE x \in S : \A y \in S : x <= y
       IN <<m>> \o SortAsc(S \ {m})

Min(a, b) == IF a <= b THEN a ELSE b

Pages == Layouts[layout]

\* getStopHeaders(): the headers rendered at the current scroll position
getStopHeaders == Pages[pos]

\* saveIfItinerary(url, j) of the network hook; d = NoDoc is a body that
\* parses to a falsy value
saveIfItinerary(i, d) ==
  /\ IF d = NoDoc
     THEN UNCHANGED <<byId, addrIndex>>
     ELSE /\ byId' = [byId EXCEPT ![i] = d]
          /\ addrIndex' = [addrIndex EXCEPT ![i] = NoIndex]
  /\ UNCHANGED <<url, layout, rpc, want, itinJson, pos, loops, seen, stagnant,
                 lastSeen, target, jsonTried, domCalls, result>>
  /\ UNCHANGED <<uiVars, xVars>>

\* collectRemainingStopsNth up to await sleep(140)
ScanStart ==
  /\ pos' = 1
  /\ loops' = 0
  /\ seen' = [n \in StopNums |-> "no"]
  /\ stagnant' = 0
  /\ lastSeen' = 0

\* openToggleCopyStop reaches getItineraryJSON() in the detail view of the
\* itinerary u showing layout l, with ordinal w; a cache hit (or missing URL
\* parameters) lets the pass continue into the stop scan
getItineraryJSON(u, l, w) ==
  /\ rpc = "idle"
  /\ url' = u
  /\ layout' = l
  /\ want' = Max(1, w)
  /\ IF u.itineraryId = NoId \/ ~u.serviceAreaId
     THEN /\ itinJson' = NoDoc
          /\ rpc' = "scanLoop"
     ELSE IF byId[u.itineraryId] # NoDoc
     THEN /\ itinJson' = byId[u.itineraryId]
          /\ rpc' = "scanLoop"
     ELSE /\ itinJson' = NoDoc
          /\ rpc' = "fetching"
  /\ ScanStart
  /\ UNCHANGED <<byId, addrIndex, target, jsonTried, domCalls, result>>
  /\ UNCHANGED <<uiVars, xVars>>

\* the fetch of getItineraryJSON settles with document d (NoDoc: network or
\* parse failure); a document is written to the cache and the memo dropped
getItineraryJSON_fetched(d) ==
  /\ rpc = "fetching"
  /\ IF d # NoDoc
     THEN /\ byId' = [byId EXCEPT ![url.itineraryId] = d]
          /\ addrIndex' = [addrIndex EXCEPT ![url.itineraryId] = NoIndex]
     ELSE UNCHANGED <<byId, addrIndex>>
  /\ itinJson' = d
  /\ rpc' = "scanLoop"
  /\ UNCHANGED <<url, layout, want, pos, loops, seen, stagnant, lastSeen,
                 target, jsonTried, domCalls, result>>
  /\ UNCHANGED <<uiVars, xVars>>

\* a map that holds the headers of the current iteration only
SeenAfter_CurrentOnly(hs) ==
  [n \in StopNums |->
     IF \E h \in hs : h.stopNum = n
     THEN IF (CHOOSE h \in hs : h.stopNum = n).done THEN "done" ELSE "open"
     ELSE "no"]

\* seen.set(p.stopNum, p) for every rendered header with a stop number
SeenAfter(hs) ==
  [n \in StopNums |->
     IF \E h \in hs : h.stopNum = n
     THEN IF (CHOOSE h \in hs : h.stopNum = n).done THEN "done" ELSE "open"
     ELSE seen[n]]

\* the loop with a break on stagnation alone
collectRemainingStopsNth_StagnantOnly ==
  /\ rpc = "scanLoop"
  /\ IF loops >= MAX_SCROLL_LOOPS
     THEN LET remaining == SortAsc({n \in StopNums : seen[n] = "open"})
          IN /\ target' = IF Len(remaining) >= want
                          THEN Hdr(remaining[want], FALSE) ELSE NoTarget
             /\ rpc' = "lookup"
             /\ UNCHANGED <<pos, loops, seen, stagnant, lastSeen>>
     ELSE LET seen1 == SeenAfter(getStopHeaders)
              remaining == SortAsc({n \in StopNums : seen1[n] = "open"})
              nowSeen == Cardinality({n \in StopNums : seen1[n] # "no"})
              stagnant1 == IF nowSeen = lastSeen THEN stagnant + 1 ELSE 0
              atBottom == layout \notin EndlessStops /\ pos = Len(Pages)
          IN /\ seen' = seen1
             /\ IF Len(remaining) >= want
                THEN /\ target' = Hdr(remaining[want], FALSE)
                     /\ rpc' = "lookup"
                     /\ UNCHANGED <<pos, loops, stagnant, lastSeen>>
                ELSE /\ stagnant' = stagnant1
                     /\ lastSeen' = nowSeen
                     /\ IF layout \in NoScroller
                        THEN \* scroller.scrollTop of null: TypeError
                             /\ target' = NoTarget
                             /\ rpc' = "threw"
                             /\ UNCHANGED <<pos, loops>>
                        ELSE IF stagnant1 >= STAGNANT_THRESHOLD
                        THEN /\ target' = NoTarget
                             /\ rpc' = "lookup"
                             /\ UNCHANGED <<pos, loops>>
                        ELSE /\ pos' = Min(pos + 1, Len(Pages))
                             /\ loops' = loops + 1
                             /\ UNCHANGED <<target, rpc>>
  /\ UNCHANGED <<byId, addrIndex, url, layout, want, itinJson, jsonTried,
                 domCalls, result>>
  /\ UNCHANGED <<uiVars, xVars>>

\* one iteration of the loop of collectRemainingStopsNth (or its exit once
\* loops reached MAX_SCROLL_LOOPS)
collectRemainingStopsNth ==
  /\ rpc = "scanLoop"
  /\ IF loops >= MAX_SCROLL_LOOPS
     THEN LET remaining == SortAsc({n \in StopNums : seen[n] = "open"})
          IN /\ target' = IF Len(remaining) >= want
                          THEN Hdr(remaining[want], FALSE) ELSE NoTarget
             /\ rpc' = "lookup"
             /\ UNCHANGED <<pos, loops, seen, stagnant, lastSeen>>
     ELSE LET seen1 == SeenAfter(getStopHeaders)
              remaining == SortAsc({n \in StopNums : seen1[n] = "open"})
              nowSeen == Cardinality({n \in StopNums : seen1[n] # "no"})
              stagnant1 == IF nowSeen = lastSeen THEN stagnant + 1 ELSE 0
              atBottom == layout \notin EndlessStops /\ pos = Len(Pages)
          IN /\ seen' = seen1
             /\ IF Len(remaining) >= want
                THEN /\ target' = Hdr(remaining[want], FALSE)
                     /\ rpc' = "lookup"
                     /\ UNCHANGED <<pos, loops, stagnant, lastSeen>>
                ELSE /\ stagnant' = stagnant1
                     /\ lastSeen' = nowSeen
                     /\ IF layout \in NoScroller
                        THEN \* scroller.scrollTop of null: TypeError
                             /\ target' = NoTarget
                             /\ rpc' = "threw"
                             /\ UNCHANGED <<pos, loops>>
                        ELSE IF atBottom /\ stagnant1 >= STAGNANT_THRESHOLD
                        THEN /\ target' = NoTarget
                             /\ rpc' = "lookup"
                             /\ UNCHANGED <<pos, loops>>
                        ELSE /\ pos' = Min(pos + 1, Len(Pages))
                             /\ loops' = loops + 1
                             /\ UNCHANGED <<target, rpc>>
  /\ UNCHANGED <<byId, addrIndex, url, layout, want, itinJson, jsonTried,
                 domCalls, result>>
  /\ UNCHANGED <<uiVars, xVars>>

\* getJsonAddressForStop(stopNum, itinJson): the looked-up address (<<>> for
\* null) and the memo it leaves
IndexUsed ==
  IF addrIndex[url.itineraryId].has
  THEN addrIndex[url.itineraryId].idx
  ELSE buildStopAddressIndex(itinJson)

getJsonAddressForStop(stopNum) ==
  IF url.itineraryId = NoId \/ itinJson = NoDoc THEN <<>>
  ELSE IF IndexUsed[stopNum] # <<>>
       THEN cleanAddress(<<IndexUsed[stopNum]>>) ELSE <<>>

\* copyNthRemainingStopAddress after the scan: the target test, the JSON
\* path and the call of the DOM path
copyNthRemainingStopAddress ==
  /\ rpc = "lookup"
  /\ IF target = NoTarget \/ target.stopNum = 0
     THEN /\ result' = NoResult
          /\ rpc' = "done"
          /\ UNCHANGED <<addrIndex, jsonTried, domCalls>>
     ELSE LET jsonAddr == getJsonAddressForStop(target.stopNum)
          IN /\ jsonTried' = TRUE
             /\ addrIndex' =
                  IF url.itineraryId = NoId \/ itinJson = NoDoc THEN addrIndex
                  ELSE [addrIndex EXCEPT ![url.itineraryId] =
                          [has |-> TRUE, idx |-> IndexUsed]]
             /\ IF jsonAddr # <<>>
                THEN /\ result' = [stopNum |-> target.stopNum,
                                   full |-> cleanAddress(<<jsonAddr>>),
                                   source |-> "json"]
                     /\ rpc' = "done"
                     /\ domCalls' = domCalls
                ELSE /\ domCalls' = domCalls + 1
                     /\ rpc' = "domLocate"
                     /\ result' = result
  /\ UNCHANGED <<byId, url, layout, want, itinJson, pos, loops, seen, stagnant,
                 lastSeen, target>>
  /\ UNCHANGED <<uiVars, xVars>>

\* domExpandAndGetAddressForStop(stopNum): the cleaned panel address, or
\* <<>> (null) when the header, the panel or the address node is missing
domExpandAndGetAddressForStop(stopNum) ==
  IF /\ layout \notin NoScroller
     /\ \E i \in 1..Len(Pages) : \E h \in Pages[i] : h.stopNum = stopNum
  THEN cleanAddress(DomText[stopNum])
  ELSE <<>>

\* the DOM path settles and copyNthRemainingStopAddress returns
copyNthRemainingStopAddress_dom ==
  /\ rpc = "domLocate"
  /\ LET domAddr == domExpandAndGetAddressForStop(target.stopNum)
         full == cleanAddress(<<domAddr>>)
     IN result' = IF domAddr = <<>> \/ full = <<>> THEN NoResult
                  ELSE [stopNum |-> target.stopNum, full |-> full, source |-> "dom"]
  /\ rpc' = "done"
  /\ UNCHANGED <<byId, addrIndex, url, layout, want, itinJson, pos, loops, seen,
                 stagnant, lastSeen, target, jsonTried, domCalls>>
  /\ UNCHANGED <<uiVars, xVars>>

\* openToggleCopyStop returns to the list view; the locals of the pass die
openToggleCopyStop_return ==
  /\ rpc \in {"done", "threw"}
  /\ rpc' = "idle"
  /\ url' = NoUrl
  /\ layout' = 1
  /\ want' = 1
  /\ itinJson' = NoDoc
  /\ ScanStart
  /\ target' = NoTarget
  /\ jsonTried' = FALSE
  /\ domCalls' = 0
  /\ result' = NoResult
  /\ UNCHANGED <<byId, addrIndex>>
  /\ UNCHANGED <<uiVars, xVars>>

\* URL parameters of a detail view: both present, or none
Urls == {NoUrl} \cup {[itineraryId |-> i, serviceAreaId |-> TRUE] : i \in Ids}

NextResolve ==
  \/ \E i \in Ids, d \in DocIds \cup {NoDoc} : saveIfItinerary(i, d)
  \/ \E u \in Urls, l \in LayoutIds, w \in 1..MaxWant : getItineraryJSON(u, l, w)
  \/ \E d \in DocIds \cup {NoDoc} : getItineraryJSON_fetched(d)
  \/ collectRemainingStopsNth
  \/ copyNthRemainingStopAddress
  \/ copyNthRemainingStopAddress_dom
  \/ openToggleCopyStop_return

SpecResolve == Init /\ [][NextResolve]_vars

(***************************************************************************)
(* Properties of the document cache and of the stop resolver               *)
(***************************************************************************)
\* the pass holds a document and an itinerary id: the JSON path can run
HasDoc == url.itineraryId # NoId /\ itinJson # NoDoc

\* the incomplete stops of the itinerary shown in the detail view
Incomplete ==
  {n \in StopNums : \E i \in 1..Len(Pages) : Hdr(n, FALSE) \in Pages[i]}

\* C5: the document cache holds one document per itinerary ID and a capture
\* drops the memoized index of that ID, so a resolution that holds the
\* document now cached for the ID returns, on the JSON path, the address the
\* index of that document has for the stop, never an entry of an older index.
C5_ResolutionUsesNewDocument ==
  (rpc = "done" /\ result.source = "json" /\ HasDoc
     /\ itinJson = byId[url.itineraryId])
  => result.full =
       cleanAddress(<<cleanAddress(<<buildStopAddressIndex(itinJson)[result.stopNum]>>)>>)

\* C6: no check-then-write on the document cache spans a suspension point:
\* from the check of getItineraryJSON that finds the entry missing to its
\* write, no other task (the capture of the network hook) writes the cache
\* or the memo.
C6_NoWriteBetweenCheckAndWrite ==
  [][(rpc = "fetching" /\ rpc' = "fetching")
       => (byId' = byId /\ addrIndex' = addrIndex)]_vars

\* C7: when the address index has a non-empty entry for the stop number of
\* the target, the resolution returns source "json" and does not invoke the
\* DOM path.
C7_JsonFirst ==
  [][(rpc = "lookup" /\ rpc' # "lookup" /\ target # NoTarget /\ HasDoc
        /\ IndexUsed[target.stopNum] # <<>>)
       => (rpc' = "done" /\ result'.source = "json" /\ domCalls' = domCalls)]_vars

\* C8: whatever the order in which the headers are discovered, the target
\* for ordinal N is the stop with the N-th smallest stop number among all
\* incomplete stops of the itinerary, and there is no target when fewer than
\* N incomplete stops exist.
C8_NthSmallestOfAll ==
  rpc = "lookup" =>
    target = IF Cardinality(Incomplete) >= want
             THEN Hdr(SortAsc(Incomplete)[want], FALSE)
             ELSE NoTarget

\* C9: copyNthRemainingStopAddress returns null only when fewer than N
\* incomplete stops were found or when both the JSON path and the DOM path
\* gave no address; for a target with a parsed stop number a lookup is
\* always attempted.
C9_LookupAttempted ==
  rpc = "done" =>
    /\ target # NoTarget => jsonTried
    /\ (result = NoResult /\ target # NoTarget)
         => (domCalls = 1 /\ domExpandAndGetAddressForStop(target.stopNum) = <<>>)

\* C10: when the pass has no document, or its document has no recognizable
\* stop-number/address pair for the target stop, the resolution takes the
\* DOM path and an address found there is returned with source "dom".
C10_DomFallback ==
  (rpc = "done" /\ target # NoTarget
     /\ (~HasDoc \/ buildStopAddressIndex(itinJson)[target.stopNum] = <<>>)
     /\ domExpandAndGetAddressForStop(target.stopNum) # <<>>)
  => /\ result.source = "dom"
     /\ result.stopNum = target.stopNum
     /\ result.full = cleanAddress(<<domExpandAndGetAddressForStop(target.stopNum)>>)

(***************************************************************************)
(* The network hook: installation and one page request at a time           *)
(***************************************************************************)
hookNetworkOnce_NoGuard ==
  /\ installs < MaxInstalls
  /\ installs' = installs + 1
  /\ hooked' = TRUE
  /\ fetchWraps' = fetchWraps + 1
  /\ xhrWraps' = xhrWraps + 1
  /\ UNCHANGED <<hreq, hpc, pageGot, captures, swallowed>>
  /\ UNCHANGED <<uiVars, rVars, xNotH>>

\* hookNetworkOnce(): returns at once when __ONTH_NET__.hooked is set, else
\* sets it and wraps fetch, open and send
hookNetworkOnce ==
  /\ installs < MaxInstalls
  /\ installs' = installs + 1
  /\ IF hooked
     THEN UNCHANGED <<hooked, fetchWraps, xhrWraps>>
     ELSE /\ hooked' = TRUE
          /\ fetchWraps' = fetchWraps + 1
          /\ xhrWraps' = xhrWraps + 1
  /\ UNCHANGED <<hreq, hpc, pageGot, captures, swallowed>>
  /\ UNCHANGED <<uiVars, rVars, xNotH>>

\* the page calls window.fetch(url) or xhr.open(..., url); xhr.send(): the
\* call runs through the wrappers installed at that moment
PageRequest(q) ==
  /\ hpc = "idle"
  /\ hreq' = [kind |-> q.kind, match |-> q.match, id |-> q.id, doc |-> q.doc,
              body |-> q.body, net |-> q.net,
              layers |-> IF q.kind = "fetch" THEN fetchWraps ELSE xhrWraps]
  /\ hpc' = "pending"
  /\ pageGot' = "none"
  /\ captures' = 0
  /\ swallowed' = 0
  /\ UNCHANGED <<hooked, installs, fetchWraps, xhrWraps>>
  /\ UNCHANGED <<uiVars, rVars, xNotH>>

\* the wrapper reading the body of every response
OrigSettle_NoUrlTest ==
  /\ hpc = "pending"
  /\ pageGot' = hreq.net
  /\ hpc' = IF hreq.net # "neterr" /\ hreq.layers > 0
            THEN "hook" ELSE "done"
  /\ UNCHANGED <<hooked, installs, fetchWraps, xhrWraps, hreq, captures, swallowed>>
  /\ UNCHANGED <<uiVars, rVars, xNotH>>

\* the original primitive settles: await origFetch(...args) returns res or
\* throws, the load / error event of the XHR fires; the wrapper hands the
\* page what it got and, for a matching url, goes on to read the body
OrigSettle ==
  /\ hpc = "pending"
  /\ pageGot' = hreq.net
  /\ hpc' = IF hreq.net # "neterr" /\ hreq.match /\ hreq.layers > 0
            THEN "hook" ELSE "done"
  /\ UNCHANGED <<hooked, installs, fetchWraps, xhrWraps, hreq, captures, swallowed>>
  /\ UNCHANGED <<uiVars, rVars, xNotH>>

HookCapture_Rethrow ==
  /\ hpc = "hook"
  /\ hpc' = "done"
  /\ IF hreq.body = "doc"
     THEN /\ byId' = [byId EXCEPT ![hreq.id] = hreq.doc]
          /\ addrIndex' = [addrIndex EXCEPT ![hreq.id] = NoIndex]
          /\ captures' = hreq.layers
          /\ UNCHANGED <<swallowed, pageGot>>
     ELSE /\ UNCHANGED <<byId, addrIndex, captures, swallowed>>
          /\ pageGot' = IF hreq.body = "falsy" THEN pageGot ELSE "neterr"
  /\ UNCHANGED <<hooked, installs, fetchWraps, xhrWraps, hreq>>
  /\ UNCHANGED <<uiVars, rLocals, xNotH>>

\* res.clone().json().then(j => saveIfItinerary(url, j)).catch(...) of the
\* fetch wrapper, handleLoad of the send wrapper: once per wrapper layer
HookCapture ==
  /\ hpc = "hook"
  /\ hpc' = "done"
  /\ IF hreq.body = "doc"
     THEN /\ byId' = [byId EXCEPT ![hreq.id] = hreq.doc]
          /\ addrIndex' = [addrIndex EXCEPT ![hreq.id] = NoIndex]
          /\ captures' = hreq.layers
          /\ UNCHANGED swallowed
     ELSE /\ UNCHANGED <<byId, addrIndex, captures>>
          /\ swallowed' = IF hreq.body = "falsy" THEN 0 ELSE hreq.layers
  /\ UNCHANGED <<hooked, installs, fetchWraps, xhrWraps, hreq, pageGot>>
  /\ UNCHANGED <<uiVars, rLocals, xNotH>>

\* the page is done with the response
RequestDone ==
  /\ hpc = "done"
  /\ hpc' = "idle"
  /\ hreq' = NoReq
  /\ pageGot' = "none"
  /\ captures' = 0
  /\ swallowed' = 0
  /\ UNCHANGED <<hooked, installs, fetchWraps, xhrWraps>>
  /\ UNCHANGED <<uiVars, rVars, xNotH>>

NextHook ==
  \/ hookNetworkOnce
  \/ \E q \in Requests : PageRequest(q)
  \/ OrigSettle
  \/ HookCapture
  \/ RequestDone

SpecHook == Init /\ [][NextHook]_vars

\* C11: however often the installation step runs, fetch and XHR open/send
\* are wrapped once, and one response causes at most one capture.
C11_WrappedOnce ==
  /\ fetchWraps <= 1
  /\ xhrWraps <= 1
  /\ captures <= 1

C11_Witness ==
  /\ installs >= 2
  /\ hpc = "done"
  /\ captures = 1

\* C12: for every request through the wrapped fetch or XHR, matching or not,
\* the page receives what the original primitive produced; an error inside
\* the hook is swallowed and does not change it.
C12_PageSeesOriginal ==
  hpc \in {"hook", "done"} => pageGot = hreq.net

C12_Witness ==
  /\ hpc = "done"
  /\ hreq.layers = 1
  /\ hreq.match
  /\ hreq.body = "notjson"
  /\ swallowed = 1
  /\ pageGot = "res200"

(***************************************************************************)
(* The driver-row scan                                                     *)
(***************************************************************************)
RowPages == RowLayouts[dLayout]

\* parseRow(row): the record of a row element
parseRow(e) == [key |-> e, defaulted |-> FALSE]

\* collectAllDrivers up to await sleep(BASE_SLEEP * 4), on the list l, with
\* (p) or without a scroll container
collectAllDrivers(l, p) ==
  /\ dpc = "idle"
  /\ dLayout' = l
  /\ dPanel' = p
  /\ dOut' = <<>>
  /\ lastCount' = 0
  /\ dStagnant' = 0
  /\ dLoops' = 0
  /\ IF ~p
     THEN /\ dToast' = "Scroll container not found"
          /\ dpc' = "returned"
          /\ UNCHANGED <<dPos, tracked>>
     ELSE /\ tracked' = tracked \ RowLayouts[l][Min(dPos, Len(RowLayouts[l]))]
          /\ dPos' = 1
          /\ dToast' = "none"
          /\ dpc' = "loop"
  /\ UNCHANGED <<uiVars, rVars, xNotD>>

\* index of the first row of ns whose fields throw (0: none)
FirstThrow(ns) ==
  IF \E i \in 1..Len(ns) : ns[i] \in ThrowEls
  THEN CHOOSE i \in 1..Len(ns) :
         ns[i] \in ThrowEls /\ \A j \in 1..(i - 1) : ns[j] \notin ThrowEls
  ELSE 0

collectAllDrivers_loop_NoBreak ==
  /\ dpc = "loop"
  /\ IF dLoops >= MAX_SCROLL_LOOPS
     THEN /\ dpc' = "returned"
          /\ UNCHANGED <<dPos, tracked, dOut, lastCount, dStagnant, dLoops>>
     ELSE LET ns == SortAsc(RowPages[dPos] \ tracked)
              k == FirstThrow(ns)
          IN IF k # 0
             THEN /\ tracked' = tracked \cup {ns[i] : i \in 1..k}
                  /\ dOut' = dOut \o [i \in 1..(k - 1) |-> parseRow(ns[i])]
                  /\ dpc' = "threw"
                  /\ UNCHANGED <<dPos, lastCount, dStagnant, dLoops>>
             ELSE LET out1 == dOut \o [i \in 1..Len(ns) |-> parseRow(ns[i])]
                      stagnant1 == IF Len(out1) = lastCount
                                   THEN dStagnant + 1 ELSE 0
                  IN /\ tracked' = tracked \cup RowPages[dPos]
                     /\ dOut' = out1
                     /\ dStagnant' = stagnant1
                     /\ lastCount' = Len(out1)
                     /\ dPos' = Min(dPos + 1, Len(RowPages))
                     /\ dLoops' = dLoops + 1
                     /\ dpc' = dpc
  /\ UNCHANGED <<dPanel, dLayout, dToast>>
  /\ UNCHANGED <<uiVars, rVars, xNotD>>

\* one iteration of the loop of collectAllDrivers (or its exit once loops
\* reached MAX_SCROLL_LOOPS); parseRow is not guarded, a throw leaves the scan
collectAllDrivers_loop ==
  /\ dpc = "loop"
  /\ IF dLoops >= MAX_SCROLL_LOOPS
     THEN /\ dpc' = "returned"
          /\ UNCHANGED <<dPos, tracked, dOut, lastCount, dStagnant, dLoops>>
     ELSE LET ns == SortAsc(RowPages[dPos] \ tracked)
              k == FirstThrow(ns)
          IN IF k # 0
             THEN /\ tracked' = tracked \cup {ns[i] : i \in 1..k}
                  /\ dOut' = dOut \o [i \in 1..(k - 1) |-> parseRow(ns[i])]
                  /\ dpc' = "threw"
                  /\ UNCHANGED <<dPos, lastCount, dStagnant, dLoops>>
             ELSE LET out1 == dOut \o [i \in 1..Len(ns) |-> parseRow(ns[i])]
                      atBottom == dLayout \notin EndlessRows /\ dPos = Len(RowPages)
                      stagnant1 == IF Len(out1) = lastCount
                                   THEN dStagnant + 1 ELSE 0
                  IN /\ tracked' = tracked \cup RowPages[dPos]
                     /\ dOut' = out1
                     /\ dStagnant' = stagnant1
                     /\ lastCount' = Len(out1)
                     /\ IF atBottom /\ stagnant1 >= STAGNANT_THRESHOLD
                        THEN /\ dpc' = "returned"
                             /\ UNCHANGED <<dPos, dLoops>>
                        ELSE /\ dPos' = Min(dPos + 1, Len(RowPages))
                             /\ dLoops' = dLoops + 1
                             /\ dpc' = dpc
  /\ UNCHANGED <<dPanel, dLayout, dToast>>
  /\ UNCHANGED <<uiVars, rVars, xNotD>>

\* the caller has the result (or the exception) of collectAllDrivers; the
\* locals of the call die, the scroll position and the marks stay
collectAllDrivers_return ==
  /\ dpc \in {"returned", "threw"}
  /\ dpc' = "idle"
  /\ dOut' = <<>>
  /\ lastCount' = 0
  /\ dStagnant' = 0
  /\ dLoops' = 0
  /\ dToast' = "none"
  /\ dLayout' = 1
  /\ dPanel' = TRUE
  /\ UNCHANGED <<dPos, tracked>>
  /\ UNCHANGED <<uiVars, rVars, xNotD>>

NextDrivers ==
  \/ \E l \in RowLayoutIds, p \in BOOLEAN : collectAllDrivers(l, p)
  \/ collectAllDrivers_loop
  \/ collectAllDrivers_return

\* both scans: the driver rows of the list view, the stop headers of the
\* detail view; the gate lets one workflow run at a time, so a scan starts
\* and runs only while the other one is not running
NextScan ==
  \/ rpc = "idle" /\ NextDrivers
  \/ dpc = "idle" /\ NextResolve

SpecScan == Init /\ [][NextScan]_vars

\* the row elements of the list shown
AllRowEls == UNION {RowPages[i] : i \in 1..Len(RowPages)}

\* C13: a scan over a container that shows the same items throughout and is
\* at its scroll end from the first check stops within STAGNANT_THRESHOLD + 1
\* loop iterations (the iteration that leaves the loop does not count in
\* loops), not at MAX_SCROLL_LOOPS.
C13_StagnationBound ==
  /\ (dpc = "returned" /\ dPanel /\ Len(RowPages) = 1)
       => dLoops + 1 <= STAGNANT_THRESHOLD + 1
  /\ (rpc = "lookup" /\ Len(Pages) = 1)
       => loops + 1 <= STAGNANT_THRESHOLD + 1

C13_Witness ==
  /\ dpc = "returned"
  /\ dPanel
  /\ Len(RowPages) = 1
  /\ Len(dOut) = 2
  /\ dLoops = STAGNANT_THRESHOLD

\* C14: a driver-row scan over N row elements, one of which throws during
\* field extraction, returns N records, the failing element as a defaulted
\* record; it neither throws nor returns fewer records.
C14_ScanSurvivesRowError ==
  (dpc \in {"returned", "threw"} /\ dPanel /\ AllRowEls \cap ThrowEls # {})
  => /\ dpc = "returned"
     /\ Len(dOut) = Cardinality(AllRowEls)
     /\ \A i \in 1..Len(dOut) : dOut[i].defaulted = (dOut[i].key \in ThrowEls)

\* C15: when no scroll container can be located, the driver-row scan and the
\* stop-header scan return an empty result and report the error, without
\* throwing.
C15_NoContainerEmptyResult ==
  /\ (dpc \in {"returned", "threw"} /\ ~dPanel)
       => (dpc = "returned" /\ dOut = <<>>
             /\ dToast = "Scroll container not found")
  /\ (rpc \in {"lookup", "threw"} /\ layout \in NoScroller)
       => (rpc = "lookup" /\ target = NoTarget)

(***************************************************************************)
(* waitFor                                                                 *)
(***************************************************************************)
\* waitFor(fn, {timeout}): t0 = performance.now()
waitFor(tmo) ==
  /\ wpc = "idle"
  /\ wTimeout' = tmo
  /\ wNow' = 0
  /\ wResult' = NoValue
  /\ wWarns' = 0
  /\ wpc' = "test"
  /\ UNCHANGED <<uiVars, rVars, xNotW>>

waitFor_poll_NoCatch(o) ==
  /\ wpc = "test"
  /\ IF wNow < wTimeout
     THEN IF o = Throws
          THEN /\ wpc' = "threw"
               /\ UNCHANGED <<wResult, wWarns>>
          ELSE IF o # 0
          THEN /\ wResult' = o
               /\ wpc' = "returned"
               /\ UNCHANGED wWarns
          ELSE /\ wpc' = "sleep"
               /\ UNCHANGED <<wResult, wWarns>>
     ELSE /\ wResult' = NoValue
          /\ wpc' = "returned"
          /\ UNCHANGED wWarns
  /\ UNCHANGED <<wNow, wTimeout>>
  /\ UNCHANGED <<uiVars, rVars, xNotW>>

\* the loop test and one pass of the loop body up to await sleep(interval);
\* o is what fn() does in this pass
waitFor_poll(o) ==
  /\ wpc = "test"
  /\ IF wNow < wTimeout
     THEN IF o = Throws
          THEN /\ wWarns' = wWarns + 1
               /\ wpc' = "sleep"
               /\ UNCHANGED wResult
          ELSE IF o # 0
          THEN /\ wResult' = o
               /\ wpc' = "returned"
               /\ UNCHANGED wWarns
          ELSE /\ wpc' = "sleep"
               /\ UNCHANGED <<wResult, wWarns>>
     ELSE /\ wResult' = NoValue
          /\ wpc' = "returned"
          /\ UNCHANGED wWarns
  /\ UNCHANGED <<wNow, wTimeout>>
  /\ UNCHANGED <<uiVars, rVars, xNotW>>

\* sleep(interval) is over: one interval plus the lag of the timer
waitFor_wake(lag) ==
  /\ wpc = "sleep"
  /\ wNow' = wNow + 1 + lag
  /\ wpc' = "test"
  /\ UNCHANGED <<wTimeout, wResult, wWarns>>
  /\ UNCHANGED <<uiVars, rVars, xNotW>>

\* the caller has the value (or the exception)
waitFor_return ==
  /\ wpc \in {"returned", "threw"}
  /\ wpc' = "idle"
  /\ wNow' = 0
  /\ wTimeout' = 0
  /\ wResult' = NoValue
  /\ wWarns' = 0
  /\ UNCHANGED <<uiVars, rVars, xNotW>>

NextWait ==
  \/ \E tmo \in 0..MaxTimeout : waitFor(tmo)
  \/ \E o \in PredOutcomes : waitFor_poll(o)
  \/ \E lag \in 0..MaxLag : waitFor_wake(lag)
  \/ waitFor_return

SpecWait == Init /\ [][NextWait]_vars

PageRendersToggle(el) ==
  /\ toggle' = el
  /\ lastWant' = "none"
  /\ prevWant' = "none"
  /\ hideClicks' = 0
  /\ prevClicks' = 0
  /\ hideRet' = FALSE
  /\ UNCHANGED <<uiVars, rVars, xNotT>>

setHideCompleted_AlwaysClick(on) ==
  /\ prevWant' = lastWant
  /\ prevClicks' = hideClicks
  /\ lastWant' = on
  /\ IF ~toggle.found
     THEN /\ hideClicks' = 0
          /\ toggle' = toggle
     ELSE /\ hideClicks' = 1
          /\ toggle' = Flip(toggle)
  /\ hideRet' = isOn(toggle')

\* setHideCompleted(want): on (want) is "true", "false" or "other" (not a
\* boolean); a click is clickCenter(el) followed by sleep(200)
setHideCompleted(on) ==
  /\ prevWant' = lastWant
  /\ prevClicks' = hideClicks
  /\ lastWant' = on
  /\ IF ~toggle.found
     THEN /\ hideClicks' = 0
          /\ toggle' = toggle
     ELSE IF on # "other" /\ isOn(toggle) = (on = "true")
     THEN /\ hideClicks' = 0
          /\ toggle' = toggle
     ELSE /\ hideClicks' = 1
          /\ toggle' = Flip(toggle)
  /\ hideRet' = isOn(toggle')

\* a call of setHideCompleted on its own
HideCompletedCall(on) ==
  /\ setHideCompleted(on)
  /\ UNCHANGED <<uiVars, rVars, xNotT>>

NextToggle ==
  \/ \E el \in Toggles : PageRendersToggle(el)
  \/ \E on \in {"true", "false", "other"} : HideCompletedCall(on)

SpecToggle == Init /\ [][NextToggle]_vars

\* C19: setHideCompleted(true) dispatches a click only when the switch reads
\* OFF (aria-checked, else checked, else data-state / class) and none when
\* it reads ON, so two consecutive calls dispatch at most one click.
C19_ClickOnlyWhenOff ==
  /\ []((lastWant = "true" /\ prevWant = "true") => prevClicks + hideClicks <= 1)
  /\ []((lastWant = "true" /\ hideClicks = 0 /\ toggle.found) => isOn(toggle))
  /\ [][(lastWant' = "true" /\ hideClicks' = 1) => (toggle.found /\ ~isOn(toggle))]_vars

C19_Witness ==
  /\ lastWant = "true"
  /\ prevWant = "true"
  /\ prevClicks = 1
  /\ hideClicks = 0
  /\ hideRet
  /\ toggle.aria = "none"
  /\ ~toggle.hasChecked

(***************************************************************************)
(* openToggleCopyStop: navigation to the detail view and back              *)
(***************************************************************************)
\* the switches a detail view is rendered with in the navigation runs
NavToggles ==
  {el \in Toggles : el.found /\ el.aria # "none" /\ ~el.hasChecked
                      /\ ~el.checked /\ el.ds = "" /\ ~el.cls}

\* the three activation strategies of clickDriverExact (the second one
\* returns at once when the row has no link or button)
Strategies == <<"center", "link", "taps">>

\* the operator scrolls the list between workflows
UserScroll(s) ==
  /\ npc = "idle"
  /\ view = "list"
  /\ listScroll' = s
  /\ UNCHANGED <<view, savedScroll, npc, backFor, nAttempt, nBackTries, backOk,
                 entered, nFull, nRet, nThrew, nTrace>>
  /\ UNCHANGED <<uiVars, rVars, xNotN>>

\* the page shows the list again while the resolution is still running (the
\* operator used the page's own back control)
UserBack ==
  /\ npc = "resolve"
  /\ view = "detail"
  /\ view' = "list"
  /\ UNCHANGED <<listScroll, savedScroll, npc, backFor, nAttempt, nBackTries,
                 backOk, entered, nFull, nRet, nThrew, nTrace>>
  /\ UNCHANGED <<uiVars, rVars, xNotN>>

\* openToggleCopyStop up to clickDriver: when no row is rendered it first
\* calls goBackToList; then it saves the scroll offset of the list panel
openToggleCopyStop ==
  /\ npc = "idle"
  /\ IF view = "list"
     THEN /\ savedScroll' = listScroll
          /\ npc' = "find"
          /\ UNCHANGED <<backFor, nBackTries, nBackClicks, nHist, nEarly, backDone>>
     ELSE /\ npc' = "backEntry"
          /\ backFor' = "start"
          /\ nBackTries' = 0
          /\ nBackClicks' = 0
          /\ nHist' = 0
          /\ nEarly' = FALSE
          /\ backDone' = FALSE
          /\ UNCHANGED savedScroll
  /\ UNCHANGED <<view, listScroll, nAttempt, backOk, entered, nFull, nRet, nThrew,
                 nRan, nWaits>>
  /\ UNCHANGED <<uiVars, rVars, xNotN>>

\* what follows a return of goBackToList with value b in view v
AfterBack(b, v) ==
  /\ backOk' = b
  /\ backDone' = TRUE
  /\ view' = v
  /\ backFor' = "none"
  /\ IF backFor = "start"
     THEN /\ savedScroll' = listScroll
          /\ npc' = "find"
          /\ UNCHANGED <<listScroll, nRet>>
     ELSE /\ listScroll' = savedScroll
          /\ LET address == IF nFull THEN "addr" ELSE ""
             IN nRet' = [ok |-> address # "", address |-> address]
          /\ npc' = "returned"
          /\ UNCHANGED savedScroll

\* goBackToList: the first test for list rows
goBackToList ==
  /\ npc = "backEntry"
  /\ IF view = "list"
     THEN /\ AfterBack(TRUE, "list")
          /\ nEarly' = TRUE
     ELSE /\ npc' = "back"
          /\ UNCHANGED <<view, listScroll, savedScroll, backFor, backOk, nRet,
                         nEarly, backDone>>
  /\ UNCHANGED <<nAttempt, nBackTries, entered, nFull, nThrew, nRan, nWaits,
                 nBackClicks, nHist>>
  /\ UNCHANGED <<uiVars, rVars, xNotN>>

\* one pass of the loop of goBackToList that goes on although list rows are
\* shown
goBackToList_attempt_NoCheck(btn, works) ==
  /\ npc = "back"
  /\ nBackClicks' = IF btn THEN nBackClicks + 1 ELSE nBackClicks
  /\ nBackTries' = nBackTries + 1
  /\ view' = IF works THEN "list" ELSE view
  /\ npc' = IF nBackTries + 1 >= RETRY_ATTEMPTS THEN "hist" ELSE "back"
  /\ UNCHANGED <<listScroll, savedScroll, backFor, backOk, nRet, backDone>>
  /\ UNCHANGED <<nAttempt, entered, nFull, nThrew, nRan, nWaits, nHist, nEarly>>
  /\ UNCHANGED <<uiVars, rVars, xNotN>>

\* one pass of the loop of goBackToList: click on a back control if one is
\* found (btn), sleep(380), test for list rows
goBackToList_attempt(btn, works) ==
  /\ npc = "back"
  /\ nBackClicks' = IF btn THEN nBackClicks + 1 ELSE nBackClicks
  /\ nBackTries' = nBackTries + 1
  /\ IF works
     THEN AfterBack(TRUE, "list")
     ELSE /\ npc' = IF nBackTries + 1 >= RETRY_ATTEMPTS THEN "hist" ELSE "back"
          /\ UNCHANGED <<view, listScroll, savedScroll, backFor, backOk, nRet,
                         backDone>>
  /\ UNCHANGED <<nAttempt, entered, nFull, nThrew, nRan, nWaits, nHist, nEarly>>
  /\ UNCHANGED <<uiVars, rVars, xNotN>>

\* history.back() and the bounded wait for list rows
goBackToList_history(works, v) ==
  /\ npc = "hist"
  /\ nHist' = nHist + 1
  /\ IF works THEN AfterBack(TRUE, "list") ELSE AfterBack(FALSE, v)
  /\ UNCHANGED <<nAttempt, nBackTries, entered, nFull, nThrew, nRan, nWaits,
                 nBackClicks, nEarly>>
  /\ UNCHANGED <<uiVars, rVars, xNotN>>

\* the workflow going on after clickDriver returned null
openToggleCopyStop_fail_GoesOn ==
  /\ nRet' = nRet
  /\ npc' = "prep"

\* return { ok: false, address: "" } after clickDriver returned null
openToggleCopyStop_fail ==
  /\ nRet' = [ok |-> FALSE, address |-> ""]
  /\ npc' = "returned"

\* clickDriver: the row is rendered (found "now"), is found after
\* findRowByNameScrolling scrolled the list to s ("scrolled"), or is not
\* found, in which case the scroll offset is put back ("missing")
clickDriver(found, s) ==
  /\ npc = "find"
  /\ found = "now" => view = "list"
  /\ IF found = "missing"
     THEN /\ openToggleCopyStop_fail
          /\ UNCHANGED <<listScroll, nAttempt>>
     ELSE /\ listScroll' = IF found = "now" THEN listScroll ELSE s
          /\ nAttempt' = 1
          /\ npc' = "attempt"
          /\ nRet' = nRet
  /\ nRan' = <<>>
  /\ nWaits' = <<>>
  /\ UNCHANGED <<view, savedScroll, backFor, nBackTries, backOk, entered, nFull,
                 nThrew, nBackClicks, nHist, nEarly, backDone>>
  /\ UNCHANGED <<uiVars, rVars, xNotN>>

\* clickDriverExact with a loop that goes on after the detail-view signal
clickDriverExact_NoReturn(signal, s) ==
  /\ npc = "attempt"
  /\ listScroll' = s
  /\ nRan' = Append(nRan, Strategies[nAttempt])
  /\ nWaits' = Append(nWaits, IF signal THEN "signal" ELSE "timeout")
  /\ IF signal /\ nAttempt = NumAttempts
     THEN /\ view' = "detail"
          /\ entered' = TRUE
          /\ npc' = "prep"
          /\ UNCHANGED <<nAttempt, nRet>>
     ELSE IF nAttempt < NumAttempts
     THEN /\ nAttempt' = nAttempt + 1
          /\ UNCHANGED <<view, entered, npc, nRet>>
     ELSE /\ openToggleCopyStop_fail
          /\ UNCHANGED <<view, entered, nAttempt>>
  /\ UNCHANGED <<savedScroll, backFor, nBackTries, backOk, nFull, nThrew,
                 nBackClicks, nHist, nEarly, backDone>>
  /\ UNCHANGED <<uiVars, rVars, xNotN>>

\* clickDriverExact: strategy nAttempt (row.scrollIntoView moves the list to
\* s) and the bounded wait for the detail-view signal that follows it
clickDriverExact(signal, s) ==
  /\ npc = "attempt"
  /\ listScroll' = s
  /\ nRan' = Append(nRan, Strategies[nAttempt])
  /\ nWaits' = Append(nWaits, IF signal THEN "signal" ELSE "timeout")
  /\ IF signal
     THEN /\ view' = "detail"
          /\ entered' = TRUE
          /\ npc' = "prep"
          /\ UNCHANGED <<nAttempt, nRet>>
     ELSE IF nAttempt < NumAttempts
     THEN /\ nAttempt' = nAttempt + 1
          /\ UNCHANGED <<view, entered, npc, nRet>>
     ELSE /\ openToggleCopyStop_fail
          /\ UNCHANGED <<view, entered, nAttempt>>
  /\ UNCHANGED <<savedScroll, backFor, nBackTries, backOk, nFull, nThrew,
                 nBackClicks, nHist, nEarly, backDone>>
  /\ UNCHANGED <<uiVars, rVars, xNotN>>

\* waitFor(headers), scrollToHideAreaExport, setHideCompleted(true)
openToggleCopyStop_prepare ==
  /\ npc = "prep"
  /\ setHideCompleted("true")
  /\ npc' = "resolve"
  /\ UNCHANGED <<view, listScroll, savedScroll, backFor, nAttempt, nBackTries,
                 backOk, entered, nFull, nRet, nThrew, nTrace>>
  /\ UNCHANGED <<uiVars, rVars, hVars, dVars, wVars, cVars, kVars, lVars, sVars, mVars,
                 yVars>>

\* getItineraryJSON and copyNthRemainingStopAddress settle: with an address,
\* with null, or by throwing; then goBackToList is called
openToggleCopyStop_resolved(o) ==
  /\ npc = "resolve"
  /\ IF o = "throw"
     THEN /\ nThrew' = TRUE
          /\ npc' = "returned"
          /\ UNCHANGED <<nFull, backFor, nBackTries, nBackClicks, nHist, nEarly,
                         backDone>>
     ELSE /\ nFull' = (o = "address")
          /\ npc' = "backEntry"
          /\ backFor' = "end"
          /\ nBackTries' = 0
          /\ nBackClicks' = 0
          /\ nHist' = 0
          /\ nEarly' = FALSE
          /\ backDone' = FALSE
          /\ UNCHANGED nThrew
  /\ UNCHANGED <<view, listScroll, savedScroll, nAttempt, backOk, entered, nRet,
                 nRan, nWaits>>
  /\ UNCHANGED <<uiVars, rVars, xNotN>>

\* the caller has the result
openToggleCopyStop_done ==
  /\ npc = "returned"
  /\ npc' = "idle"
  /\ nAttempt' = 0
  /\ nBackTries' = 0
  /\ backOk' = FALSE
  /\ entered' = FALSE
  /\ nFull' = FALSE
  /\ nRet' = NoRet
  /\ nThrew' = FALSE
  /\ savedScroll' = 0
  /\ nRan' = <<>>
  /\ nWaits' = <<>>
  /\ nBackClicks' = 0
  /\ nHist' = 0
  /\ nEarly' = FALSE
  /\ backDone' = FALSE
  /\ UNCHANGED <<view, listScroll, backFor>>
  /\ UNCHANGED <<uiVars, rVars, xNotN>>

NextNav ==
  \/ \E s \in Scrolls : UserScroll(s)
  \/ UserBack
  \/ \E el \in NavToggles : npc = "attempt" /\ PageRendersToggle(el)
  \/ openToggleCopyStop
  \/ goBackToList
  \/ \E btn, works \in BOOLEAN : goBackToList_attempt(btn, works)
  \/ \E works \in BOOLEAN, v \in {"detail", "blank"} : goBackToList_history(works, v)
  \/ \E found \in {"now", "scrolled", "missing"}, s \in Scrolls : clickDriver(found, s)
  \/ \E signal \in BOOLEAN, s \in Scrolls : clickDriverExact(signal, s)
  \/ openToggleCopyStop_prepare
  \/ \E o \in {"address", "null", "throw"} : openToggleCopyStop_resolved(o)
  \/ openToggleCopyStop_done

SpecNav == Init /\ [][NextNav]_vars

\* C17: openToggleCopyStop returns ok = false whenever navigation fails:
\* when no activation strategy produced the detail-view signal, and when
\* neither the back-control attempts nor history.back() restored the list.
C17_NavFailureNotOk ==
  (npc = "returned" /\ ~nThrew)
  => /\ ~entered => ~nRet.ok
     /\ (entered /\ ~backOk) => ~nRet.ok

\* C18: on every transition back to the list view at the end of a workflow
\* (after the resolution, and after all activation strategies failed) the
\* scroll offset of the list container is the one saved at the start.
C18_ScrollRestored ==
  (npc = "returned" /\ ~nThrew /\ view = "list") => listScroll = savedScroll
(***************************************************************************)
(* cleanAddress as a function of its input                                 *)
(***************************************************************************)
\* cleanAddress(raw) for a text of the page or of a document
cleanAddress_call(raw) ==
  /\ cpc = "idle"
  /\ cRaw' = raw
  /\ cOnce' = cleanAddress(raw)
  /\ cTwice' = <<>>
  /\ cpc' = "once"
  /\ UNCHANGED <<uiVars, rVars, xNotC>>

\* cleanAddress applied to its own output (a text of one line)
cleanAddress_again ==
  /\ cpc = "once"
  /\ cTwice' = cleanAddress(<<cOnce>>)
  /\ cpc' = "twice"
  /\ UNCHANGED <<cRaw, cOnce>>
  /\ UNCHANGED <<uiVars, rVars, xNotC>>

NextClean ==
  \/ cpc = "idle" /\ \E raw \in RawTexts : cleanAddress_call(raw)
  \/ cleanAddress_again

SpecClean == Init /\ [][NextClean]_vars

\* C20: address normalization is idempotent: cleaning the output of
\* cleanAddress again gives that output.
C20_Idempotent ==
  cpc = "twice" => cTwice = cOnce
\* the lines of a text that survive the boilerplate filter
KeptLines(raw) ==
  SelectSeq(raw, LAMBDA l : l # <<>> /\ ~IsBoilerplate(l))

IsPrefixOf(a, b) == Len(a) <= Len(b) /\ a = SubSeq(b, 1, Len(a))

\* C21: when the text has a line that is not boilerplate, the output is made
\* of text of surviving lines only (a prefix of one, or two of them joined
\* by a comma) and is itself no boilerplate line; a boilerplate line followed
\* by a street line and a city/state/zip line gives "street, city/state/zip".
C21_NoBoilerplateText ==
  LET keep == KeptLines(cRaw)
  IN (cpc # "idle" /\ keep # <<>>)
     => /\ cOnce # <<>>
        /\ ~IsBoilerplate(cOnce)
        /\ \/ \E i \in 1..Len(keep) : IsPrefixOf(cOnce, keep[i])
           \/ \E i, j \in 1..Len(keep) : cOnce = keep[i] \o <<",">> \o keep[j]
        /\ ( /\ Len(cRaw) = 3 /\ Len(keep) = 2
             /\ cRaw[1] # <<>> /\ IsBoilerplate(cRaw[1])
             /\ ~hasZip(keep[1]) /\ hasZip(keep[2]) )
           => cOnce = keep[1] \o <<",">> \o keep[2]

\* C21 witness: "Edit in ..." / street / "city, zip" was cleaned
C21_Witness ==
  /\ cpc = "once"
  /\ cRaw = << <<"EditIn">>, <<"12Main">>, <<",", "11111">> >>
  /\ cOnce = <<"12Main", ",", ",", "11111">>
\* the two-line join (the first kept line without a postal code, the second
\* with one) applies to the text
JoinApplies(keep) ==
  Len(keep) >= 2 /\ ~hasZip(keep[1]) /\ hasZip(keep[2])

\* C22: when the two-line join does not apply and a surviving line has both
\* a comma and a postal code, the output is the prefix of the first such line
\* that ends with its first postal code; what follows the code is dropped.
C22_TruncatedAtZip ==
  LET keep == KeptLines(cRaw)
      both == SelectSeq(keep, LAMBDA l : hasZip(l) /\ hasComma(l))
  IN (cpc # "idle" /\ ~JoinApplies(keep) /\ both # <<>>)
     => /\ cOnce # <<>>
        /\ IsPrefixOf(cOnce, both[1])
        /\ cOnce[Len(cOnce)] \in ZipTokens
        /\ \A j \in 1..(Len(cOnce) - 1) : cOnce[j] \notin ZipTokens

\* C22 witness: a line "street, zip note" lost its note
C22_Witness ==
  /\ cpc = "once"
  /\ cRaw = << <<"12Main", ",", "11111", "12Main">> >>
  /\ cOnce = <<"12Main", ",", "11111">>
\* C23: every scan rebuilds the full set: it returns one record for each row
\* element rendered at some iteration of the scan, whatever earlier scans
\* marked as seen.
C23_ScanRebuildsFullSet ==
  (dpc = "returned" /\ dPanel /\ AllRowEls \cap ThrowEls = {})
  => /\ {dOut[i].key : i \in 1..Len(dOut)} = AllRowEls
     /\ Len(dOut) = Cardinality(AllRowEls)
(***************************************************************************)
(* The key of a driver record                                              *)
(***************************************************************************)
\* parseRow on a row of the list
parseRow_first(r) ==
  /\ kpc = "idle"
  /\ kRowA' = r
  /\ kKeyA' = parseRow_key(r)
  /\ kpc' = "one"
  /\ UNCHANGED <<kRowB, kKeyB, kAgain>>
  /\ UNCHANGED <<uiVars, rVars, xNotK>>

\* parseRow on another row, and once more on the first one
parseRow_second(r) ==
  /\ kpc = "one"
  /\ kRowB' = r
  /\ kKeyB' = parseRow_key(r)
  /\ kAgain' = parseRow_key(kRowA)
  /\ kpc' = "two"
  /\ UNCHANGED <<kRowA, kKeyA>>
  /\ UNCHANGED <<uiVars, rVars, xNotK>>

NextKey ==
  \/ kpc = "idle" /\ \E r \in KeyRows : parseRow_first(r)
  \/ kpc = "one" /\ \E r \in KeyRows : parseRow_second(r)

SpecKey == Init /\ [][NextKey]_vars

\* C24: the key depends only on the normalized name and the digits of the
\* phone number: rows with the same name and the same phone digits have the
\* same key whatever the formatting of the phone, and parsing a row again
\* gives the same key.
C24_KeyFromNameAndDigits ==
  kpc = "two"
  => /\ kAgain = kKeyA
     /\ ( /\ norm(kRowA.name) = norm(kRowB.name)
          /\ digits(extractPhone(kRowA)) = digits(extractPhone(kRowB)) )
        => kKeyA = kKeyB
(***************************************************************************)
(* LRUCache: get, set, has and clear on a cache of MAX_CACHE_SIZE entries  *)
(***************************************************************************)
\* the record of use after key k was written or read
Touch(u, k) == Append(SelectSeq(u, LAMBDA x : x # k), k)

OldestOf(u) == IF u = <<>> THEN NoKey ELSE Head(u)

\* the one key of c that is not in c2 (NoKey: none)
Dropped(c, c2) ==
  LET gone == {c[i][1] : i \in 1..Len(c)} \ {c2[i][1] : i \in 1..Len(c2)}
  IN IF gone = {} THEN NoKey ELSE CHOOSE k \in gone : TRUE

\* get(key) without the delete and re-insert of a hit
LRUCache_get_NoTouch(k) ==
  /\ lCache' = lCache
  /\ lUsed' = IF LruHas(lCache, k) THEN Touch(lUsed, k) ELSE lUsed
  /\ lOp' = "get"
  /\ lOldest' = OldestOf(lUsed)
  /\ lEvicted' = NoKey
  /\ lRet' = IF LruHas(lCache, k) THEN lCache[LruValue(lCache, k)][2]
             ELSE NoLruValue
  /\ UNCHANGED <<uiVars, rVars, xNotL>>

\* get(key)
LRUCache_get(k) ==
  /\ lCache' = LruGet(lCache, k)
  /\ lUsed' = IF LruHas(lCache, k) THEN Touch(lUsed, k) ELSE lUsed
  /\ lOp' = "get"
  /\ lOldest' = OldestOf(lUsed)
  /\ lEvicted' = NoKey
  /\ lRet' = IF LruHas(lCache, k) THEN lCache[LruValue(lCache, k)][2]
             ELSE NoLruValue
  /\ UNCHANGED <<uiVars, rVars, xNotL>>

\* set(key, value)
LRUCache_set(k, v) ==
  LET c2 == LruSet(lCache, k, v)
      out == Dropped(lCache, c2)
  IN /\ lCache' = c2
     /\ lUsed' = Touch(SelectSeq(lUsed, LAMBDA x : x # out), k)
     /\ lOp' = "set"
     /\ lOldest' = OldestOf(lUsed)
     /\ lEvicted' = out
     /\ lRet' = NoLruValue
     /\ UNCHANGED <<uiVars, rVars, xNotL>>

\* has(key)
LRUCache_has(k) ==
  /\ lOp' = "has"
  /\ lRet' = IF LruHas(lCache, k) THEN "true" ELSE "false"
  /\ lOldest' = OldestOf(lUsed)
  /\ lEvicted' = NoKey
  /\ UNCHANGED <<lCache, lUsed>>
  /\ UNCHANGED <<uiVars, rVars, xNotL>>

\* clear()
LRUCache_clear ==
  /\ lCache' = <<>>
  /\ lUsed' = <<>>
  /\ lOp' = "clear"
  /\ lOldest' = OldestOf(lUsed)
  /\ lEvicted' = NoKey
  /\ lRet' = NoLruValue
  /\ UNCHANGED <<uiVars, rVars, xNotL>>

NextLru ==
  \/ \E k \in LruKeys : LRUCache_get(k)
  \/ \E k \in LruKeys, v \in LruValues : LRUCache_set(k, v)
  \/ \E k \in LruKeys : LRUCache_has(k)
  \/ LRUCache_clear

SpecLru == Init /\ [][NextLru]_vars

\* C25: the cache never holds more than its limit of entries; when set
\* inserts a new key at capacity, the key removed is the one least recently
\* written by set or read by get; has() changes neither content nor recency.
C25_LruBoundAndEviction ==
  /\ [](Len(lCache) <= MAX_CACHE_SIZE)
  /\ []({lCache[i][1] : i \in 1..Len(lCache)} = {lUsed[i] : i \in 1..Len(lUsed)})
  /\ [](lEvicted # NoKey => (lOp = "set" /\ lEvicted = lOldest))
  /\ [][lOp' = "has" => (lCache' = lCache /\ lUsed' = lUsed)]_vars

\* C25 witness: the cache is full, key 1 was read after keys 2 and 3 were
\* written, and a set of a fourth key removed key 2
C25_Witness ==
  /\ lOp = "set"
  /\ Len(lCache) = MAX_CACHE_SIZE
  /\ lEvicted = 2
  /\ lOldest = 2
  /\ LruHas(lCache, 1)
(***************************************************************************)
(* The stop ordinal from the input field to the resolver                   *)
(***************************************************************************)
\* stopInput "input" listener (it runs whether the gate is held or not)
stopInput_input(v) ==
  /\ sStopN' = validStopN(v)
  /\ UNCHANGED <<sLocal, sWant, spc>>
  /\ UNCHANGED <<uiVars, rVars, xNotS>>

\* requestAddress: const stopN
requestAddress_stopN ==
  /\ spc = "idle"
  /\ sLocal' = validStopN(sStopN)
  /\ spc' = "request"
  /\ UNCHANGED <<sStopN, sWant>>
  /\ UNCHANGED <<uiVars, rVars, xNotS>>

\* copyNthRemainingStopAddress(stopN): const want
copyNthRemainingStopAddress_want ==
  /\ spc = "request"
  /\ sWant' = validStopN(sLocal)
  /\ spc' = "resolve"
  /\ UNCHANGED <<sStopN, sLocal>>
  /\ UNCHANGED <<uiVars, rVars, xNotS>>

\* the workflow has ended
requestAddress_end ==
  /\ spc = "resolve"
  /\ spc' = "idle"
  /\ UNCHANGED <<sStopN, sLocal, sWant>>
  /\ UNCHANGED <<uiVars, rVars, xNotS>>

NextStopN ==
  \/ \E v \in TypedNumbers : stopInput_input(v)
  \/ requestAddress_stopN
  \/ copyNthRemainingStopAddress_want
  \/ requestAddress_end

SpecStopN == Init /\ [][NextStopN]_vars

\* an integer between 1 and STOP_MAX
IsStopOrdinal(x) == x % 10 = 0 /\ 10 <= x /\ x <= 10 * STOP_MAX

\* C26: the stop ordinal a workflow uses is an integer between 1 and 999,
\* whatever was typed in the stop-number input.
C26_OrdinalInRange ==
  /\ spc \in {"request", "resolve"} => IsStopOrdinal(sLocal)
  /\ spc = "resolve" => IsStopOrdinal(sWant)
\* C27: an index memoized for an itinerary ID was built from the document
\* now cached for that ID, also when a capture replaced the document while
\* the resolution pass was suspended in the stop scan.
C27_MemoMatchesCachedDocument ==
  \A i \in Ids :
    addrIndex[i].has
    => /\ byId[i] # NoDoc
       /\ addrIndex[i].idx = buildStopAddressIndex(byId[i])
(***************************************************************************)
(* Mutex: lock() and unlock() with waiting tasks                           *)
(***************************************************************************)
\* the test of the while loop of lock(): wait in the queue, or take the lock
Mutex_tryLock(t) ==
  IF mLocked
  THEN /\ mQueue' = Append(mQueue, t)
       /\ mpc' = [mpc EXCEPT ![t] = "queued"]
       /\ mLocked' = mLocked
  ELSE /\ mLocked' = TRUE
       /\ mpc' = [mpc EXCEPT ![t] = "holds"]
       /\ mQueue' = mQueue

\* a task calls lock()
Mutex_lock(t) ==
  /\ mpc[t] = "out"
  /\ Mutex_tryLock(t)
  /\ mCalls' = IF mLocked THEN Append(mCalls, t) ELSE mCalls
  /\ UNCHANGED <<uiVars, rVars, xNotM>>

\* a task whose promise unlock() resolved runs again: the while loop tests
\* _locked once more
Mutex_lock_resume(t) ==
  /\ mpc[t] = "woken"
  /\ Mutex_tryLock(t)
  /\ mCalls' = IF mLocked THEN mCalls ELSE SelectSeq(mCalls, LAMBDA x : x # t)
  /\ UNCHANGED <<uiVars, rVars, xNotM>>

\* the holder calls unlock(): the first queued callback is resolved, its task
\* runs in a later microtask
Mutex_unlock(t) ==
  /\ mpc[t] = "holds"
  /\ mLocked' = FALSE
  /\ IF mQueue # <<>>
     THEN /\ mQueue' = Tail(mQueue)
          /\ mpc' = [mpc EXCEPT ![t] = "out", ![Head(mQueue)] = "woken"]
     ELSE /\ mQueue' = mQueue
          /\ mpc' = [mpc EXCEPT ![t] = "out"]
  /\ UNCHANGED mCalls
  /\ UNCHANGED <<uiVars, rVars, xNotM>>

NextMutex ==
  \/ \E t \in Lockers : Mutex_lock(t)
  \/ \E t \in Lockers : Mutex_lock_resume(t)
  \/ \E t \in Lockers : Mutex_unlock(t)

SpecMutex == Init /\ [][NextMutex]_vars

\* C28: tasks blocked in lock() get the lock in the order of their calls: a
\* task takes the lock only when no task is blocked or when it is the one
\* blocked for the longest time.
C28_FifoAcquisition ==
  [][\A t \in Lockers :
       (mpc[t] # "holds" /\ mpc'[t] = "holds")
       => (mCalls = <<>> \/ Head(mCalls) = t)]_vars
\* C29: clickDriverExact runs its strategies in the fixed order, each
\* followed by a bounded wait for the detail-view signal; a further strategy
\* runs only after the wait before it timed out; the row is returned at the
\* first signal and null after the wait of the third strategy timed out.
C29_StrategiesInOrder ==
  /\ Len(nRan) <= Len(Strategies)
  /\ nRan = SubSeq(Strategies, 1, Len(nRan))
  /\ Len(nWaits) = Len(nRan)
  /\ \A i \in 1..(Len(nWaits) - 1) : nWaits[i] = "timeout"
  /\ entered <=> (nWaits # <<>> /\ nWaits[Len(nWaits)] = "signal")
  /\ (npc = "returned" /\ ~entered /\ nRan # <<>>)
       => (nRan = Strategies /\ ~nRet.ok
             /\ \A i \in 1..Len(nWaits) : nWaits[i] = "timeout")

\* C29 witness: the center click timed out, the link click gave the signal
C29_Witness ==
  /\ npc = "prep"
  /\ entered
  /\ nRan = <<"center", "link">>
  /\ nWaits = <<"timeout", "signal">>

\* C30: goBackToList returns true without activating anything when list rows
\* are shown at its start; else it makes at most RETRY_ATTEMPTS back-control
\* attempts, each followed by a test for list rows, calls history.back() at
\* most once and only after all of them failed, and returns true exactly
\* when list rows were observed.
C30_BackNavigationBounded ==
  /\ [](nBackTries <= RETRY_ATTEMPTS /\ nBackClicks <= nBackTries /\ nHist <= 1)
  /\ [](nHist = 1 => nBackTries = RETRY_ATTEMPTS)
  /\ [](nEarly => (backOk /\ nBackClicks = 0 /\ nBackTries = 0 /\ nHist = 0))
  /\ [][(~backDone /\ backDone') => (backOk' <=> view' = "list")]_vars
  /\ [][(nBackClicks' > nBackClicks \/ nHist' > nHist) => view # "list"]_vars

\* C30 witness: three clicks on a back control failed, history.back() brought
\* the list back
C30_Witness ==
  /\ npc = "returned"
  /\ backDone
  /\ backOk
  /\ nBackClicks = RETRY_ATTEMPTS
  /\ nHist = 1
  /\ view = "list"

OpenSoFar(p) ==
  {n \in StopNums : \E i \in 1..p : \E h \in Pages[i] : h.stopNum = n /\ ~h.done}

\* the k-th smallest element of S
NthSmallest(S, k) == CHOOSE n \in S : Cardinality({m \in S : m < n}) = k - 1

\* the pages shown to the iterations that have ended
PagesDone == Min(loops, Len(Pages))

\* C32: collectRemainingStopsNth returns in the first iteration in which the
\* incomplete headers seen so far number at least the requested ordinal,
\* without a further scroll step, and its target is the ordinal-th smallest
\* of the incomplete stops seen so far (a step that changes rpc or loops is
\* an iteration of the scan).
C32_EarlyExitAtOrdinal ==
  /\ [][(rpc = "scanLoop" /\ loops < MAX_SCROLL_LOOPS
           /\ (rpc' # rpc \/ loops' # loops)
           /\ Cardinality(OpenSoFar(pos)) >= want)
          => /\ rpc' = "lookup"
             /\ target' = Hdr(NthSmallest(OpenSoFar(pos), want), FALSE)
             /\ pos' = pos
             /\ loops' = loops]_vars
  /\ [](rpc = "scanLoop" => Cardinality(OpenSoFar(PagesDone)) < want)
  /\ []((rpc = "lookup" /\ target # NoTarget)
          => Cardinality(OpenSoFar(pos)) >= want)

C32_Witness ==
  /\ rpc = "lookup"
  /\ want = 2
  /\ loops = 1
  /\ pos = 2
  /\ target = Hdr(3, FALSE)

\* the row elements rendered to the iterations of the running scan
RowsObserved == UNION {RowPages[i] : i \in 1..dPos}

\* C33: a driver-row scan returns at most one record per row element, and as
\* many records as distinct row elements were rendered during the scan.
C33_OneRecordPerElement ==
  (dpc = "returned" /\ dPanel)
  => /\ \A i, j \in 1..Len(dOut) : dOut[i].key = dOut[j].key => i = j
     /\ Len(dOut) = Cardinality(RowsObserved)

(***************************************************************************)
(* The address index of a document                                         *)
(***************************************************************************)
RECURSIVE Flatten(_)
RECURSIVE FlattenKids(_, _)
\* the objects of a document in depth-first order, a parent before its
\* properties
Flatten(node) == <<node>> \o FlattenKids(node.kids, 1)

FlattenKids(ks, i) ==
  IF i > Len(ks) THEN <<>> ELSE Flatten(ks[i]) \o FlattenKids(ks, i + 1)

\* the positions in depth-first order of the objects of document d that
\* carry stop number n and a non-empty address
AddrHits(d, n) ==
  {i \in 1..Len(Flatten(Docs[d])) :
     /\ Flatten(Docs[d])[i].num = n
     /\ extractAddressFromObj(Flatten(Docs[d])[i]) # <<>>}

FirstHit(d, n) == CHOOSE i \in AddrHits(d, n) : \A j \in AddrHits(d, n) : i <= j

\* C34: the index of a document has an entry for exactly the stop numbers
\* that some object carries with a non-empty address; the entry is the
\* address of the first such object in depth-first order, whatever follows,
\* and it is not empty.  The index memoized by a resolution is the index of
\* a document.
C34_IndexKeepsFirstAddress ==
  /\ \A d \in DocIds :
       /\ IndexKeys(d) = {n \in StopNums : AddrHits(d, n) # {}}
       /\ \A n \in IndexKeys(d) :
            /\ buildStopAddressIndex(d)[n] # <<>>
            /\ buildStopAddressIndex(d)[n] =
                 extractAddressFromObj(Flatten(Docs[d])[FirstHit(d, n)])
       /\ \A n \in StopNums \ IndexKeys(d) : buildStopAddressIndex(d)[n] = <<>>
  /\ \A i \in Ids :
       addrIndex[i].has
         => \E d \in DocIds : addrIndex[i].idx = buildStopAddressIndex(d)

C34_Witness ==
  /\ rpc = "done"
  /\ itinJson = 3
  /\ addrIndex[url.itineraryId].has
  /\ addrIndex[url.itineraryId].idx[0] = cleanAddress(T_C)
  /\ Cardinality(AddrHits(3, 0)) = 2

(***************************************************************************)
(* Responses passing through the hook between resolutions                  *)
(***************************************************************************)
\* the page's requests and the passes of the resolver, a request being
\* served between two passes
NextCapture ==
  \/ rpc = "idle" /\ NextHook
  \/ hpc = "idle" /\ NextResolve

SpecCapture == Init /\ [][NextCapture]_vars

\* the request whose response a step of the hook handles
ReqOfStep == IF hpc = "idle" THEN hreq' ELSE hreq

FetchFailed == url.itineraryId # NoId /\ url.serviceAreaId /\ itinJson = NoDoc

\* C36: a failed fetch (or a body that does not parse) makes getItineraryJSON
\* return null without throwing and without a write to the document cache or
\* to the memoized indexes, and the resolution of the target then takes the
\* DOM path.
C36_FetchFailureFallsBack ==
  /\ [][(rpc = "fetching" /\ rpc' # rpc /\ itinJson' = NoDoc)
          => /\ rpc' = "scanLoop"
             /\ byId' = byId
             /\ addrIndex' = addrIndex]_vars
  /\ []((rpc = "done" /\ FetchFailed /\ target # NoTarget)
          => /\ domCalls = 1
             /\ result.source # "json")

(***************************************************************************)
(* retry(fn, maxAttempts, initialDelay)                                    *)
(***************************************************************************)
\* retry(fn, ma, d) up to the first test of the loop
retry(ma, d) ==
  /\ ypc = "idle"
  /\ yMax' = ma
  /\ yDelay' = d
  /\ yAttempt' = 1
  /\ yLastError' = Undefined
  /\ yCalls' = 0
  /\ yInFlight' = 0
  /\ yWaits' = <<>>
  /\ IF 1 <= ma
     THEN /\ ypc' = "call"
          /\ yOut' = Undefined
     ELSE \* throw lastError
          /\ ypc' = "rejected"
          /\ yOut' = Undefined
  /\ UNCHANGED <<uiVars, rVars, xNotY>>

\* fn() is called
retry_call ==
  /\ ypc = "call"
  /\ yCalls' = yCalls + 1
  /\ yInFlight' = yInFlight + 1
  /\ ypc' = "await"
  /\ UNCHANGED <<yMax, yDelay, yAttempt, yLastError, yWaits, yOut>>
  /\ UNCHANGED <<uiVars, rVars, xNotY>>

\* the settling with a timer after every failed attempt
retry_settle_WaitAlways(ok) ==
  /\ ypc = "await"
  /\ yInFlight' = yInFlight - 1
  /\ IF ok
     THEN /\ ypc' = "resolved"
          /\ yOut' = Value(yCalls)
          /\ UNCHANGED <<yAttempt, yLastError, yWaits>>
     ELSE /\ yLastError' = Error(yCalls)
          /\ yWaits' = Append(yWaits, yDelay * 2^(yAttempt - 1))
          /\ ypc' = "sleep"
          /\ UNCHANGED <<yAttempt, yOut>>
  /\ UNCHANGED <<yMax, yDelay, yCalls>>
  /\ UNCHANGED <<uiVars, rVars, xNotY>>

\* await fn() settles: return of the value, or catch, the timer of the
\* backoff when attempts are left, else the end of the loop and throw
retry_settle(ok) ==
  /\ ypc = "await"
  /\ yInFlight' = yInFlight - 1
  /\ IF ok
     THEN /\ ypc' = "resolved"
          /\ yOut' = Value(yCalls)
          /\ UNCHANGED <<yAttempt, yLastError, yWaits>>
     ELSE /\ yLastError' = Error(yCalls)
          /\ IF yAttempt < yMax
             THEN /\ yWaits' = Append(yWaits, yDelay * 2^(yAttempt - 1))
                  /\ ypc' = "sleep"
                  /\ UNCHANGED <<yAttempt, yOut>>
             ELSE /\ yAttempt' = yAttempt + 1
                  /\ ypc' = "rejected"
                  /\ yOut' = Error(yCalls)
                  /\ UNCHANGED yWaits
  /\ UNCHANGED <<yMax, yDelay, yCalls>>
  /\ UNCHANGED <<uiVars, rVars, xNotY>>

\* the timer fires: attempt++ and the test of the loop
retry_wake ==
  /\ ypc = "sleep"
  /\ yAttempt' = yAttempt + 1
  /\ IF yAttempt + 1 <= yMax
     THEN /\ ypc' = "call"
          /\ yOut' = yOut
     ELSE /\ ypc' = "rejected"
          /\ yOut' = yLastError
  /\ UNCHANGED <<yMax, yDelay, yLastError, yCalls, yInFlight, yWaits>>
  /\ UNCHANGED <<uiVars, rVars, xNotY>>

\* the caller has the result (or the rejection) of retry
retry_return ==
  /\ ypc \in {"resolved", "rejected"}
  /\ ypc' = "idle"
  /\ yMax' = 0
  /\ yDelay' = 0
  /\ yAttempt' = 0
  /\ yLastError' = Undefined
  /\ yCalls' = 0
  /\ yWaits' = <<>>
  /\ yOut' = Undefined
  /\ UNCHANGED yInFlight
  /\ UNCHANGED <<uiVars, rVars, xNotY>>

NextRetry ==
  \/ \E ma \in 0..MaxAttempts, d \in 0..MaxDelay : retry(ma, d)
  \/ retry_call
  \/ \E ok \in BOOLEAN : retry_settle(ok)
  \/ retry_wake
  \/ retry_return

SpecRetry == Init /\ [][NextRetry]_vars

\* C37: retry calls fn one call at a time and at most maxAttempts times; it
\* resolves with the value of the first call that succeeds, which is its
\* last call; after the k-th failed attempt that is not the last it waits
\* initialDelay * 2^(k-1); when every attempt failed it rejects with the
\* error of the last one.
C37_RetryBackoff ==
  /\ yCalls <= yMax
  /\ yInFlight <= 1
  /\ \A k \in 1..Len(yWaits) : yWaits[k] = yDelay * 2^(k - 1)
  /\ ypc = "resolved"
       => /\ yOut = Value(yCalls)
          /\ yInFlight = 0
          /\ Len(yWaits) = yCalls - 1
  /\ ypc = "rejected"
       => /\ yCalls = yMax
          /\ Len(yWaits) = Max(yMax - 1, 0)
          /\ yOut = IF yMax = 0 THEN Undefined ELSE Error(yMax)
  /\ ypc \in {"call", "await", "sleep"}
       => Len(yWaits) = (IF ypc = "await" THEN yCalls - 1 ELSE yCalls)

C37_Witness ==
  /\ ypc = "rejected"
  /\ yMax = 3
  /\ yDelay = 2
  /\ yCalls = 3
  /\ yWaits = <<2, 4>>
  /\ yOut = Error(3)

(***************************************************************************)
(* The result of openToggleCopyStop                                        *)
(***************************************************************************)
\* C38: openToggleCopyStop returns ok = true exactly with a non-empty
\* address; when the activation failed it returns {ok: false, address: ""},
\* and from the failure on it neither calls setHideCompleted, nor runs the
\* resolver, nor navigates back (entered says that the activation of the
\* running workflow succeeded; a step that changes the record of the calls
\* of setHideCompleted and leaves an argument in lastWant is such a call).
C38_ResultShape ==
  /\ []((npc = "returned" /\ ~nThrew) => (nRet.ok <=> nRet.address # ""))
  /\ []((npc = "returned" /\ ~entered) => nRet = [ok |-> FALSE, address |-> ""])
  /\ [][(entered /\ ~entered') => npc = "returned"]_vars
  /\ [][(lastWant' # "none"
           /\ <<lastWant, prevWant, hideClicks, prevClicks>>'
                # <<lastWant, prevWant, hideClicks, prevClicks>>) => entered]_vars
  /\ [][(npc' \in {"prep", "resolve"}) => entered']_vars
  /\ [][(backFor' = "end") => entered]_vars
  /\ [][(npc \in {"find", "attempt"} /\ npc' = "returned")
          => /\ ~entered
             /\ nBackClicks' = nBackClicks
             /\ nHist' = nHist
             /\ view' = view]_vars

C38_Witness ==
  /\ npc = "returned"
  /\ ~entered
  /\ nRan = Strategies
  /\ nRet = [ok |-> FALSE, address |-> ""]
  /\ lastWant = "none"
  /\ nBackClicks = 0
  /\ nHist = 0

(***************************************************************************)
(* The address cache of the drawer                                         *)
(***************************************************************************)
\* C39: every entry of the address cache, under the key of driver r and
\* ordinal n, is a non-empty address, the one a workflow resolved for r and
\* n, whatever the stop-number input became while the workflow was
\* suspended; a requestAddress for a driver and ordinal whose entry is in the
\* cache starts no workflow (a workflow of requestAddress starts where a task
\* leaves "idle" with a row).
C39_CacheEntriesResolved ==
  /\ [](\A i \in 1..Len(addrByKey) :
          /\ addrByKey[i][2] # <<>>
          /\ addrByKey[i][2] = WorldAddr(addrByKey[i][1][1], addrByKey[i][1][2]))
  /\ [][\A t \in Tasks :
          (pc[t] = "idle" /\ pc'[t] # "idle" /\ row'[t] # NoKey)
          => ~LruHas(addrByKey, <<row'[t], localN'[t]>>)]_vars

C39_Witness ==
  /\ Len(addrByKey) = 1
  /\ addrByKey[1][1][2] = 1
  /\ stopN = DEFAULT_STOP_N
  /\ toastMsg = "copied"

====
